---- MODULE Spec2Model ----
(***************************************************************************)
(* A model of the concurrent command-execution and atomic-update core of   *)
(* deepdomain (src/src/utils/atomic_ops.py, src/src/utils/tui.py).         *)
(*                                                                         *)
(* The subsystems are modelled each with its own next-state relations:     *)
(*   FileSpec / FileFairSpec : AtomicFileWriter (atomic_write,             *)
(*       atomic_append, streaming_write, _get_lock) run by OS threads.     *)
(*   RunnerSpec : AsyncCommandRunner.run_command_async on the one asyncio  *)
(*       event loop, and ThreadSafeTUIWrapper.run_command_live run by      *)
(*       worker threads.                                                   *)
(*   UpdateSpec, UISpec, UIRunSpec, ProducerSpec : TUIUpdateManager with   *)
(*       its consumer task, the StatusPanel and LiveOutputPanel state,     *)
(*       and the producers that reach them from the loop and the bridge.   *)
(***************************************************************************)
EXTENDS Integers, Sequences, FiniteSets, TLC

(***************************************************************************)
(* Bounds of the model.                                                    *)
(***************************************************************************)
\* OS threads that call the AtomicFileWriter.
NumThreads == 2
\* Calls each thread makes.
MaxCalls == 1

Threads == 1..NumThreads

\* Coroutines that call AsyncCommandRunner.run_command_async on the event loop.
NumTasks == 2
\* Worker threads that call ThreadSafeTUIWrapper.run_command_live.
NumWorkers == 2
\* AsyncCommandRunner.max_concurrent, the admission cap (a constructor
\* argument; 8 by default).
MaxConcurrent == 1
\* Lines a command writes, over stdout and stderr together.
MaxLines == 2
\* Lines an OS pipe holds before a write to it blocks (64 KiB in Linux).
PipeCapacity == 1

\* Calls of stop_all_processes.
MaxStops == 2
\* Processes a registry holds when stop_all_processes is applied to it.
NumProcs == 2
\* Events passed to TUIUpdateManager.queue_update.
MaxEvents == 3
\* Calls of TUIUpdateManager.start and stop.
MaxLifecycle == 4
\* DeepDomainTUI objects one TUIWrapper makes.
MaxApps == 2
\* Calls of StatusPanel.add_status_message on one panel (one more than the
\* 50 entries the log is said to be capped at).
MaxMessages == 51

Tasks == 1..NumTasks
ProcIds == 1..NumProcs
Workers == 1..NumWorkers
Lines == 1..MaxLines
\* Exit codes of a command that ends by itself.
ExitCodes == {0, 7}

\* The exit code of /bin/sh when it does not find the binary of the command.
ShellNotFound == {127}

\* The exit code of /bin/sh when the file of the command is not executable.
ShellNotExecutable == {126}

\* The commands passed to run_command_async, with what /bin/sh does with
\* each: the lines it writes to stdout, its exit code, the seconds it takes.
Commands == {"echo hi", "exit 7", "sleep 100"}
CommandStdout(c) == IF c = "echo hi" THEN <<"hi">> ELSE << >>
CommandExit(c) == IF c = "exit 7" THEN 7 ELSE 0
CommandSeconds(c) == IF c = "sleep 100" THEN 100 ELSE 0

\* The timeout argument of run_command_async, in seconds (0: None).
Timeouts == {0, 1}

\* The exit codes a process can end with, as process.wait() reports them:
\* 0..255 when it exits, the negated number of the signal (1..64) when a
\* signal ends it.
RealExitCodes == (0..255) \cup {0 - s : s \in 1..64}

\* The arguments of run_command_live: a command the shell can run in an
\* existing working directory, a command whose binary does not exist, a
\* command whose file is not executable, a working directory that does not
\* exist.
BridgeKinds == {"runs", "binary missing", "not executable", "workdir missing"}

\* The same with a command that writes lines without end and never exits
\* ("yes"); every line it writes is the same.
EndlessKinds == {"runs", "endless"}

\* The same with a command line that puts a command which writes lines
\* without end in the background ("yes & sleep 1"): the shell ends, its
\* child lives on and goes on writing.
BackgroundKinds == {"runs", "endless child"}

\* The files the calls target (absolute paths, the keys of the lock table).
Paths == {"a.md", "b.md"}

NL == "\n"

\* The payloads a call may carry: the empty string, a line without a
\* trailing newline, a line with one.  Strings are sequences of characters.
Payloads == {<< >>, <<"x">>, <<"y", NL>>}

\* Content a file may hold before the first call (a file may also be absent).
InitialContents == {<<"p", NL>>}

\* AtomicFileWriter.max_memory_size (1 MiB in the source) and the chunk size
\* of streaming_write (64 KiB in the source), scaled to the payload lengths
\* of the model so that both branches of streaming_write are taken and a
\* large payload is written in more than one chunk.
MaxMemorySize == 1
ChunkSize == 1

Ops == {"write", "append", "stream"}

(***************************************************************************)
(* State.                                                                  *)
(***************************************************************************)
VARIABLES
    \* ---- filesystem
    exists,      \* the set of paths at which a file exists
    fileData,    \* fileData[p]: content of the file at p (<< >> when absent)
    \* ---- AtomicFileWriter
    locks,       \* self._locks: path -> lock object id (0: no entry)
    lockOwner,   \* lockOwner[id]: thread holding lock object id (0: free)
    guard,       \* self._lock: thread holding the lock-table guard (0: free)
    \* ---- per thread: the call in progress
    pc,          \* position in the code
    op,          \* the method called: "write", "append" or "stream"
    path,        \* file_path argument
    content,     \* content argument
    stage,       \* the method whose locked section the thread is entering/in
    wdata,       \* content argument of the atomic_write invocation
    mylock,      \* the lock object _get_lock returned
    existing,    \* atomic_append: existing_content
    tmp,         \* content of the thread's temporary file
    idx,         \* streaming_write: offset of the next chunk
    result,      \* outcome of the last call: "none", "ok", "IOFailure"
    calls,       \* calls completed
    \* ---- history (not program state)
    before,      \* file at path[t] when t last acquired a path lock
    expected,    \* expected[p]: content p holds once the calls that have
                 \* acquired p's lock, in acquisition order, have all acted
    disturbed    \* paths on which an I/O error has occurred (a failed
                 \* temporary file, an unreadable existing file)

storeVars == <<exists, fileData, locks, lockOwner, guard, pc, op, path, content,
               stage, wdata, mylock, existing, tmp, idx, result, calls,
               before, expected, disturbed>>

VARIABLES
    \* ---- AtomicFileWriter, with the file_path arguments as callers spell them
    spelling,    \* spelling[t]: the file_path argument of thread t's call
    locksByKey,  \* self._locks with its keys: Path(file_path) -> lock object
                 \* id (0: no entry)
    keyOwner,    \* keyOwner[id]: thread holding lock object id (0: free)
    spc          \* position of thread t in the call

spellVars == <<spelling, locksByKey, keyOwner, spc>>

fileVars == <<storeVars, spellVars>>

VARIABLES
    \* ---- AsyncCommandRunner
    semaphore,          \* self.semaphore._value: the free admission tokens
    waiters,            \* self.semaphore._waiters: the coroutines suspended
                        \* in acquire(), in the order of their arrival
    running_processes,  \* self.running_processes: {<<process id, process>>}
    process_counter,    \* self.process_counter
    \* ---- the asyncio event loop and the run_command_async coroutines
    loopTask,           \* the coroutine the loop is executing (0: none)
    rpc,                \* rpc[k]: position of coroutine k
    rres,               \* rres[k]: what the last call of k returned
    \* ---- ThreadSafeTUIWrapper.run_command_live, per worker thread
    loopRunning,        \* loop.is_running(): the UI event loop is running
    app_loop,           \* tui_app._loop is set: the loop object exists
    loop,               \* loop[w]: the local "loop" of the call of worker w
                        \* is a loop object (it is None otherwise)
    bpc,                \* position of the worker in run_command_live
    proc,               \* the Popen process: "none", "running", "exited",
                        \* "killed"
    returncode,         \* its exit code (negative: killed by a signal)
    readers,            \* the two stream_output threads have been started
    emitted,            \* lines the process has written
    writer,             \* a process of the command holds the write ends of
                        \* the pipes and can write: the shell or a child
    pipeOut, pipeErr,   \* lines in the stdout / stderr pipe
    output_queue,       \* queue.Queue fed by the stdout reader
    error_queue,        \* queue.Queue fed by the stderr reader
    stdout_lines,       \* lines collected from output_queue
    stderr_lines,       \* lines collected from error_queue
    timedOut,           \* the 300 s of the polling loop have passed
    scheduled,          \* coroutines scheduled on the UI loop by this call,
                        \* counted by kind
    bres                \* what the last call of the worker returned

runnerVars == <<semaphore, waiters, running_processes, process_counter,
                loopTask, rpc, rres>>

loopVars == <<loopRunning, app_loop, loop>>

writeVars == <<emitted, writer>>

bridgeVars == <<loopVars, bpc, proc, returncode, readers, writeVars, pipeOut,
                pipeErr, output_queue, error_queue, stdout_lines, stderr_lines,
                timedOut, scheduled, bres>>

VARIABLES
    \* ---- the arguments of the run_command_async call of each coroutine
    rcmd,               \* command
    rtimeout,           \* timeout (0: None)
    calledBack,         \* lines passed to output_callback / error_callback
    \* ---- the arguments of the run_command_live call of each worker
    bkind,              \* what command and workdir are: see BridgeKinds
    \* ---- stop_all_processes
    stops,              \* calls of stop_all_processes so far
    alive,              \* alive[p]: process p has not ended
    signalled,          \* signalled[p]: the signals sent to process p
    stopped,            \* the registry the last stop_all_processes found
    hit,                \* the workers whose command was running then
    \* ---- TUIUpdateManager
    running,            \* self._running
    update_task,        \* self.update_task: position of the consumer task
    update_queue,       \* self.update_queue, an asyncio.Queue
    taken,              \* <<the event the inner get() took from the queue>>
                        \* until the consumer applies it (<< >>: none)
    applied,            \* the calls the consumer made on the UI, in order
    stopping,           \* a stop() call awaits the end of the consumer task
    unmounting,         \* that stop() call is the one of on_unmount
    \* ---- history (not program state)
    enqueued,           \* the events passed to queue_update, in order
    consumers,          \* the consumer tasks created and not ended
    lifecycle           \* the calls of start() and stop(), in order

callVars == <<rcmd, rtimeout, calledBack, bkind>>

stopVars == <<stops, alive, signalled, stopped, hit>>

awaitVars == <<stopping, unmounting>>

umVars == <<running, update_task, update_queue, taken, applied, awaitVars,
            enqueued, consumers, lifecycle>>

VARIABLES
    \* ---- the UI: StatusPanel and LiveOutputPanel
    ui,                 \* status_messages, current_phase with phase_progress,
                        \* current_command, command_running, and the lines
                        \* of the output log
    \* ---- the UI event loop
    pending,            \* the queue_update coroutines handed to the loop by
                        \* run_coroutine_threadsafe and not yet run
    \* ---- history (not program state)
    direct              \* the calls producers made on the UI themselves:
                        \* who, which method, and self._running then

uiVars == <<ui, pending, direct>>

VARIABLES
    \* ---- DeepDomainTUI.run_command_async, per coroutine
    uiQueued,           \* the queue_update calls it has made, by kind
    uiCalled            \* the callback argument of the call, and the
                        \* arguments of each invocation of the callback

VARIABLES
    \* ---- TUIWrapper and the panels of its DeepDomainTUI
    tui_app,            \* self.tui_app: 0 for None, n for the n-th
                        \* DeepDomainTUI the wrapper has made
    tui_running,        \* self.tui_running
    status_panel,       \* tui_app.status_panel is set: compose() has run
    phase_queue,        \* self._phase_queue
    status_queue,       \* self._status_queue
    tuiRan,             \* run_tui has been called
    \* ---- history (not program state)
    posted              \* the updates posted through TUIWrapper, in order

wrapVars == <<tui_app, tui_running, status_panel, phase_queue, status_queue,
              tuiRan, posted>>

uiRunVars == <<uiQueued, uiCalled, wrapVars>>

vars == <<fileVars, runnerVars, bridgeVars, callVars, stopVars, umVars, uiVars,
          uiRunVars>>

(***************************************************************************)
(* Pure helpers.                                                           *)
(***************************************************************************)
EndsWithNewline(s) == Len(s) > 0 /\ s[Len(s)] = NL

\* atomic_append: combined_content = existing_content + content, plus a
\* newline when content is non-empty and does not end with one.
CombinedContent(old, c) ==
    IF Len(c) > 0 /\ ~EndsWithNewline(c) THEN old \o c \o <<NL>> ELSE old \o c

\* content[i:i+65536]
Chunk(c, i) ==
    SubSeq(c, i + 1, IF i + ChunkSize < Len(c) THEN i + ChunkSize ELSE Len(c))

\* streaming_write: len(content) <= self.max_memory_size
FitsInMemory(c) == Len(c) <= MaxMemorySize

\* The working directory of the process.
Cwd == <<"/", "w">>

\* The file_path arguments callers pass for out/a.md and out/b.md of the
\* working directory, each as its sequence of components: relative, with a
\* leading "./", through "..", and absolute.
Spellings ==
    { <<"out", "a.md">>, <<".", "out", "a.md">>,
      <<"out", "..", "out", "a.md">>, <<"/", "w", "out", "a.md">>,
      <<"out", "b.md">> }

NotDot(c) == c # "."

\* file_path = Path(file_path): pathlib drops "." components and keeps
\* ".." components and the relative or absolute form; a str and a Path of
\* the same spelling give equal Path objects.
PathOf(s) == SelectSeq(s, NotDot)

\* The components of abs with "." and ".." taken out as the OS does when it
\* opens the path.
RECURSIVE Collapse(_, _)
Collapse(done, rest) ==
    IF rest = << >> THEN done
    ELSE IF Head(rest) = "." THEN Collapse(done, Tail(rest))
    ELSE IF Head(rest) = ".."
         THEN Collapse(IF Len(done) > 1
                       THEN SubSeq(done, 1, Len(done) - 1) ELSE done,
                       Tail(rest))
    ELSE Collapse(Append(done, Head(rest)), Tail(rest))

\* The file the OS opens for a path: relative paths start at the working
\* directory.
FileOf(s) == Collapse(<< >>, IF s[1] = "/" THEN s ELSE Cwd \o s)

\* The keys the lock table can hold.
Keys == {PathOf(s) : s \in Spellings}

\* What a write that fails part-way may have put in the file it writes to.
Prefixes(s) == {SubSeq(s, 1, n) : n \in 0..Len(s)}

\* The file at p as a reader sees it.
FileAt(p) == [present |-> p \in exists, data |-> fileData[p]]

(***************************************************************************)
(* Initial state: no call in progress, empty lock table, any files.        *)
(***************************************************************************)
FileInit ==
    /\ exists \in SUBSET Paths
    /\ fileData \in [Paths -> InitialContents \cup {<< >>}]
    /\ \A p \in Paths : (p \in exists) <=> (fileData[p] # << >>)
    /\ locks = [p \in Paths |-> 0]
    /\ lockOwner = << >>
    /\ guard = 0
    /\ pc = [t \in Threads |-> "idle"]
    /\ op = [t \in Threads |-> "write"]
    /\ path = [t \in Threads |-> CHOOSE p \in Paths : TRUE]
    /\ content = [t \in Threads |-> << >>]
    /\ stage = [t \in Threads |-> "write"]
    /\ wdata = [t \in Threads |-> << >>]
    /\ mylock = [t \in Threads |-> 0]
    /\ existing = [t \in Threads |-> << >>]
    /\ tmp = [t \in Threads |-> << >>]
    /\ idx = [t \in Threads |-> 0]
    /\ result = [t \in Threads |-> "none"]
    /\ calls = [t \in Threads |-> 0]
    /\ before = [t \in Threads |-> [present |-> FALSE, data |-> << >>]]
    /\ expected = fileData
    /\ disturbed = {}
    /\ spelling = [t \in Threads |-> << >>]
    /\ locksByKey = [k \in Keys |-> 0]
    /\ keyOwner = << >>
    /\ spc = [t \in Threads |-> "idle"]

\* No result yet.
NoResult == [stdout |-> << >>, stderr |-> << >>, code |-> -1, error |-> ""]

NoneScheduled ==
    [start |-> 0, output |-> 0, finish |-> 0, status |-> 0, errors |-> 0]

RunnerInit ==
    /\ semaphore = MaxConcurrent
    /\ waiters = << >>
    /\ running_processes = {}
    /\ process_counter = 0
    /\ loopTask = 0
    /\ rpc = [k \in Tasks |-> "idle"]
    /\ rres = [k \in Tasks |-> NoResult]

BridgeInit ==
    /\ loopRunning = FALSE
    /\ app_loop = FALSE
    /\ loop = [w \in Workers |-> FALSE]
    /\ bpc = [w \in Workers |-> "idle"]
    /\ proc = [w \in Workers |-> "none"]
    /\ returncode = [w \in Workers |-> 0]
    /\ readers = [w \in Workers |-> FALSE]
    /\ emitted = [w \in Workers |-> 0]
    /\ writer = [w \in Workers |-> FALSE]
    /\ pipeOut = [w \in Workers |-> << >>]
    /\ pipeErr = [w \in Workers |-> << >>]
    /\ output_queue = [w \in Workers |-> << >>]
    /\ error_queue = [w \in Workers |-> << >>]
    /\ stdout_lines = [w \in Workers |-> << >>]
    /\ stderr_lines = [w \in Workers |-> << >>]
    /\ timedOut = [w \in Workers |-> FALSE]
    /\ scheduled = [w \in Workers |-> NoneScheduled]
    /\ bres = [w \in Workers |-> NoResult]

\* No call of run_command_async has been made.
CallInit ==
    /\ rcmd = [k \in Tasks |-> "none"]
    /\ rtimeout = [k \in Tasks |-> 0]
    /\ calledBack = [k \in Tasks |-> << >>]
    /\ bkind = [w \in Workers |-> "runs"]

\* No process exists and none has been signalled.
StopInit ==
    /\ stops = 0
    /\ alive = [p \in ProcIds |-> FALSE]
    /\ signalled = [p \in ProcIds |-> << >>]
    /\ stopped = {}
    /\ hit = {}

\* TUIUpdateManager.__init__
UpdateInit ==
    /\ running = FALSE
    /\ update_task = "none"
    /\ update_queue = << >>
    /\ taken = << >>
    /\ applied = << >>
    /\ stopping = FALSE
    /\ unmounting = FALSE
    /\ enqueued = << >>
    /\ consumers = 0
    /\ lifecycle = << >>

\* StatusPanel (class attributes and __init__) and LiveOutputPanel.__init__
NoUI == [status_messages |-> << >>, current_phase |-> <<"Initializing", 0>>,
         current_command |-> "", command_running |-> FALSE, output |-> << >>]

UIInit ==
    /\ ui = NoUI
    /\ pending = << >>
    /\ direct = {}

\* No callback has been invoked.
NotCalled == [callback |-> "none", calls |-> << >>]

\* No call of DeepDomainTUI.run_command_async has been made.
UIRunInit ==
    /\ uiQueued = [k \in Tasks |-> NoneScheduled]
    /\ uiCalled = [k \in Tasks |-> NotCalled]

\* TUIWrapper.__init__
WrapperInit ==
    /\ tui_app = 0
    /\ tui_running = FALSE
    /\ status_panel = FALSE
    /\ phase_queue = << >>
    /\ status_queue = << >>
    /\ tuiRan = FALSE
    /\ posted = << >>

Init ==
    /\ FileInit /\ RunnerInit /\ BridgeInit
    /\ CallInit /\ StopInit /\ UpdateInit /\ UIInit /\ UIRunInit
    /\ WrapperInit

(***************************************************************************)
(* AtomicFileWriter._get_lock                                              *)
(***************************************************************************)
\* A lock object that does not exist yet.
FreshLock == Len(lockOwner) + 1

\* A faulty _get_lock that installs a new lock object at every call.
AlwaysNewLock(p) == [locks EXCEPT ![p] = FreshLock]

\* if file_path not in self._locks: self._locks[file_path] = threading.Lock()
LockTableAfterGet(p) ==
    IF locks[p] = 0 THEN [locks EXCEPT ![p] = FreshLock] ELSE locks

\* A faulty _get_lock that hands every caller the oldest lock of the table,
\* whatever the path: one lock for all files.
OneLockForAll(tbl, p) ==
    tbl[CHOOSE q \in Paths :
          tbl[q] # 0 /\ \A r \in Paths : tbl[r] # 0 => tbl[q] <= tbl[r]]

\* return self._locks[file_path]
GetLockResult(tbl, p) == tbl[p]

\* with self._lock:  (entry; blocks while another thread holds the guard)
EnterGetLock(t) ==
    /\ pc[t] = "getlock"
    /\ guard = 0
    /\ guard' = t
    /\ pc' = [pc EXCEPT ![t] = "lookup"]
    /\ UNCHANGED <<exists, fileData, locks, lockOwner, op, path, content, stage,
                   wdata, mylock, existing, tmp, idx, result, calls, before,
                   expected, disturbed>>

\* The body of _get_lock, and the release of the guard on leaving it.
Lookup(t) ==
    /\ pc[t] = "lookup"
    /\ guard = t
    /\ locks' = LockTableAfterGet(path[t])
    /\ lockOwner' = IF locks'[path[t]] > Len(lockOwner)
                    THEN Append(lockOwner, 0) ELSE lockOwner
    /\ mylock' = [mylock EXCEPT ![t] = GetLockResult(locks', path[t])]
    /\ guard' = 0
    /\ pc' = [pc EXCEPT ![t] = "acquire"]
    /\ UNCHANGED <<exists, fileData, op, path, content, stage, wdata, existing,
                   tmp, idx, result, calls, before, expected, disturbed>>

(***************************************************************************)
(* A call: atomic_write, atomic_append or streaming_write.                 *)
(***************************************************************************)
\* The method whose locked section a call enters first.  streaming_write
\* delegates to atomic_write when the content fits in memory.
EntryStage(o, c) ==
    IF o = "stream" /\ FitsInMemory(c) THEN "write" ELSE o

\* The thread is inside atomic_write called by atomic_append.
Nested(t) == op[t] = "append" /\ stage[t] = "write"

Call(t) ==
    /\ pc[t] = "idle"
    /\ calls[t] < MaxCalls
    /\ \E o \in Ops, p \in Paths, c \in Payloads :
         /\ op' = [op EXCEPT ![t] = o]
         /\ path' = [path EXCEPT ![t] = p]
         /\ content' = [content EXCEPT ![t] = c]
         /\ wdata' = [wdata EXCEPT ![t] = c]
         /\ stage' = [stage EXCEPT ![t] = EntryStage(o, c)]
    /\ result' = [result EXCEPT ![t] = "none"]
    /\ pc' = [pc EXCEPT ![t] = "getlock"]
    /\ UNCHANGED <<exists, fileData, locks, lockOwner, guard, mylock, existing,
                   tmp, idx, calls, before, expected, disturbed>>

\* What the file at p is to hold once a call that acquires p's lock has
\* acted (history only).
ExpectedAfter(t) ==
    CASE stage[t] = "write"  -> wdata[t]
      [] stage[t] = "append" -> CombinedContent(expected[path[t]], content[t])
      [] stage[t] = "stream" -> expected[path[t]] \o content[t]

\* A faulty lock table of reentrant locks (threading.RLock): the thread
\* that holds a lock may take it again.
RLockIsFree(owner, t) == owner \in {0, t}

\* threading.Lock.acquire(): the lock can be taken when no thread holds it;
\* it is not reentrant, the thread that holds it waits like any other.
LockIsFree(owner, t) == owner = 0

\* with self._get_lock(file_path):  (entry; the thread blocks while the lock
\* cannot be taken)
Acquire(t) ==
    /\ pc[t] = "acquire"
    /\ LockIsFree(lockOwner[mylock[t]], t)
    /\ lockOwner' = [lockOwner EXCEPT ![mylock[t]] = t]
    /\ before' = [before EXCEPT ![t] = FileAt(path[t])]
    /\ expected' = IF Nested(t) THEN expected
                   ELSE [expected EXCEPT ![path[t]] = ExpectedAfter(t)]
    /\ pc' = [pc EXCEPT ![t] = CASE stage[t] = "write"  -> "w_tmp"
                                 [] stage[t] = "append" -> "a_read"
                                 [] stage[t] = "stream" -> "s_open"]
    /\ UNCHANGED <<exists, fileData, locks, guard, op, path, content, stage,
                   wdata, mylock, existing, tmp, idx, result, calls,
                   disturbed>>

\* Leaving a "with lock:" block normally: the lock is released and the
\* method returns, to atomic_append when it made the call, else to the caller.
Release(t) ==
    /\ pc[t] = "release"
    /\ lockOwner' = [lockOwner EXCEPT ![mylock[t]] = 0]
    /\ IF Nested(t)
       THEN /\ stage' = [stage EXCEPT ![t] = "append"]
            /\ UNCHANGED <<pc, result, calls>>
       ELSE /\ pc' = [pc EXCEPT ![t] = "idle"]
            /\ result' = [result EXCEPT ![t] = "ok"]
            /\ calls' = [calls EXCEPT ![t] = @ + 1]
            /\ UNCHANGED stage
    /\ UNCHANGED <<exists, fileData, locks, guard, op, path, content, wdata,
                   mylock, existing, tmp, idx, before, expected, disturbed>>

\* A faulty atomic_write that catches the error and returns normally.
ExitOnErrorSwallowed(t) ==
    /\ lockOwner' = [lockOwner EXCEPT ![mylock[t]] = 0]
    /\ result' = [result EXCEPT ![t] = "ok"]
    /\ pc' = [pc EXCEPT ![t] = "idle"]
    /\ calls' = [calls EXCEPT ![t] = @ + 1]
    /\ disturbed' = disturbed \cup {path[t]}

\* An exception leaves the "with" blocks of atomic_write: the path lock is
\* released and, there being no handler, the error reaches the caller.
ExitOnError(t) ==
    /\ lockOwner' = [lockOwner EXCEPT ![mylock[t]] = 0]
    /\ result' = [result EXCEPT ![t] = "IOFailure"]
    /\ pc' = [pc EXCEPT ![t] = "idle"]
    /\ calls' = [calls EXCEPT ![t] = @ + 1]
    /\ disturbed' = disturbed \cup {path[t]}

(***************************************************************************)
(* atomic_write, inside the path lock.                                     *)
(***************************************************************************)
\* tempfile.NamedTemporaryFile(delete=False, dir=parent)
CreateTmp(t) ==
    /\ pc[t] = "w_tmp"
    /\ tmp' = [tmp EXCEPT ![t] = << >>]
    /\ pc' = [pc EXCEPT ![t] = "w_write"]
    /\ UNCHANGED <<exists, fileData, locks, lockOwner, guard, op, path, content,
                   stage, wdata, mylock, existing, idx, result, calls, before,
                   expected, disturbed>>

CreateTmpFails(t) ==
    /\ pc[t] = "w_tmp"
    /\ ExitOnError(t)
    /\ UNCHANGED <<exists, fileData, locks, guard, op, path, content, stage,
                   wdata, mylock, existing, tmp, idx, before, expected>>

\* A faulty atomic_write that writes to the target file itself.
TargetWritten(t, d) ==
    /\ fileData' = [fileData EXCEPT ![path[t]] = d]
    /\ exists' = exists \cup {path[t]}
    /\ UNCHANGED tmp

\* Where tmp_file.write / flush put the data: in the temporary file.
TmpWritten(t, d) ==
    /\ tmp' = [tmp EXCEPT ![t] = d]
    /\ UNCHANGED <<exists, fileData>>

\* tmp_file.write(content); tmp_file.flush()
WriteTmp(t) ==
    /\ pc[t] = "w_write"
    /\ TmpWritten(t, wdata[t])
    /\ pc' = [pc EXCEPT ![t] = "w_sync"]
    /\ UNCHANGED <<locks, lockOwner, guard, op, path, content, stage, wdata,
                   mylock, existing, idx, result, calls, before, expected, disturbed>>

\* write or flush fails (disk full) after part of the data has been written.
WriteTmpFails(t) ==
    /\ pc[t] = "w_write"
    /\ \E d \in Prefixes(wdata[t]) : TmpWritten(t, d)
    /\ ExitOnError(t)
    /\ UNCHANGED <<locks, guard, op, path, content, stage, wdata, mylock,
                   existing, idx, before, expected>>

\* os.fsync(tmp_file.fileno()); the temporary file is closed.
SyncTmp(t) ==
    /\ pc[t] = "w_sync"
    /\ pc' = [pc EXCEPT ![t] = "w_rename"]
    /\ UNCHANGED <<exists, fileData, locks, lockOwner, guard, op, path, content,
                   stage, wdata, mylock, existing, tmp, idx, result, calls,
                   before, expected, disturbed>>

SyncTmpFails(t) ==
    /\ pc[t] = "w_sync"
    /\ ExitOnError(t)
    /\ UNCHANGED <<exists, fileData, locks, guard, op, path, content, stage,
                   wdata, mylock, existing, tmp, idx, before, expected>>

\* os.replace(temp_path, file_path)
Rename(t) ==
    /\ pc[t] = "w_rename"
    /\ fileData' = [fileData EXCEPT ![path[t]] = tmp[t]]
    /\ exists' = exists \cup {path[t]}
    /\ pc' = [pc EXCEPT ![t] = "release"]
    /\ UNCHANGED <<locks, lockOwner, guard, op, path, content, stage, wdata,
                   mylock, existing, tmp, idx, result, calls, before, expected, disturbed>>

(***************************************************************************)
(* atomic_append, inside the path lock.                                    *)
(***************************************************************************)
\* existing_content is read (it is "" when the file is absent or cannot be
\* read or decoded), combined_content is built, and atomic_write is called
\* with it while the path lock is still held.
AppendRead(t) ==
    /\ pc[t] = "a_read"
    /\ \E readable \in {TRUE} \cup {FALSE : p \in {path[t]} \cap exists} :
         /\ existing' = [existing EXCEPT ![t] =
                           IF path[t] \in exists /\ readable
                           THEN fileData[path[t]] ELSE << >>]
         /\ disturbed' = IF readable THEN disturbed
                         ELSE disturbed \cup {path[t]}
    /\ wdata' = [wdata EXCEPT ![t] = CombinedContent(existing'[t], content[t])]
    /\ stage' = [stage EXCEPT ![t] = "write"]
    /\ pc' = [pc EXCEPT ![t] = "getlock"]
    /\ UNCHANGED <<exists, fileData, locks, lockOwner, guard, op, path, content,
                   mylock, tmp, idx, result, calls, before, expected>>

(***************************************************************************)
(* streaming_write of a large content, inside the path lock.               *)
(***************************************************************************)
\* file_path.open("a")
StreamOpen(t) ==
    /\ pc[t] = "s_open"
    /\ exists' = exists \cup {path[t]}
    /\ idx' = [idx EXCEPT ![t] = 0]
    /\ pc' = [pc EXCEPT ![t] = "s_chunk"]
    /\ UNCHANGED <<fileData, locks, lockOwner, guard, op, path, content, stage,
                   wdata, mylock, existing, tmp, result, calls, before,
                   expected, disturbed>>

\* fh.write(chunk); fh.flush()  (one turn of the loop)
StreamChunk(t) ==
    /\ pc[t] = "s_chunk"
    /\ fileData' = [fileData EXCEPT ![path[t]] = @ \o Chunk(content[t], idx[t])]
    /\ idx' = [idx EXCEPT ![t] = @ + ChunkSize]
    /\ pc' = [pc EXCEPT ![t] = IF idx'[t] >= Len(content[t])
                               THEN "release" ELSE "s_chunk"]
    /\ UNCHANGED <<exists, locks, lockOwner, guard, op, path, content, stage,
                   wdata, mylock, existing, tmp, result, calls, before,
                   expected, disturbed>>

(***************************************************************************)
(* The file store as a whole.                                              *)
(***************************************************************************)
\* The steps of thread t that belong to a call in progress.
ThreadStep(t) ==
  /\ UNCHANGED <<spellVars, runnerVars, bridgeVars, callVars, stopVars, umVars, uiVars, uiRunVars>>
  /\
    \/ EnterGetLock(t)
    \/ Lookup(t)
    \/ Acquire(t)
    \/ CreateTmp(t)
    \/ CreateTmpFails(t)
    \/ WriteTmp(t)
    \/ WriteTmpFails(t)
    \/ SyncTmp(t)
    \/ SyncTmpFails(t)
    \/ Rename(t)
    \/ AppendRead(t)
    \/ StreamOpen(t)
    \/ StreamChunk(t)
    \/ Release(t)

FileCall(t) == Call(t) /\ UNCHANGED <<spellVars, runnerVars, bridgeVars, callVars, stopVars, umVars, uiVars, uiRunVars>>

FileNext == \E t \in Threads : FileCall(t) \/ ThreadStep(t)

FileSpec == Init /\ [][FileNext]_vars

(***************************************************************************)
(* The path lock of a call, by the spelling of its file_path argument.     *)
(***************************************************************************)
\* A thread calls atomic_write, atomic_append or streaming_write with a
\* file_path of some spelling.
SpelledCall(t) ==
    /\ spc[t] = "idle"
    /\ \E s \in Spellings : spelling' = [spelling EXCEPT ![t] = s]
    /\ spc' = [spc EXCEPT ![t] = "getlock"]
    /\ UNCHANGED <<locksByKey, keyOwner>>

\* file_path = Path(file_path); self._get_lock(file_path): under self._lock,
\* "if file_path not in self._locks: self._locks[file_path] = Lock()".
SpelledGetLock(t) ==
    /\ spc[t] = "getlock"
    /\ IF locksByKey[PathOf(spelling[t])] = 0
       THEN /\ locksByKey' = [locksByKey EXCEPT ![PathOf(spelling[t])] =
                                Len(keyOwner) + 1]
            /\ keyOwner' = Append(keyOwner, 0)
       ELSE UNCHANGED <<locksByKey, keyOwner>>
    /\ spc' = [spc EXCEPT ![t] = "acquire"]
    /\ UNCHANGED spelling

\* with self._get_lock(file_path):  (entry)
SpelledAcquire(t) ==
    /\ spc[t] = "acquire"
    /\ keyOwner[locksByKey[PathOf(spelling[t])]] = 0
    /\ keyOwner' = [keyOwner EXCEPT ![locksByKey[PathOf(spelling[t])]] = t]
    /\ spc' = [spc EXCEPT ![t] = "section"]
    /\ UNCHANGED <<spelling, locksByKey>>

\* The body of the "with" block has acted on the file; the lock is released.
SpelledRelease(t) ==
    /\ spc[t] = "section"
    /\ keyOwner' = [keyOwner EXCEPT ![locksByKey[PathOf(spelling[t])]] = 0]
    /\ spc' = [spc EXCEPT ![t] = "idle"]
    /\ UNCHANGED <<spelling, locksByKey>>

\* Threads that act on files through paths of any spelling.
SpelledNext ==
    /\ UNCHANGED <<storeVars, runnerVars, bridgeVars, callVars, stopVars,
                   umVars, uiVars, uiRunVars>>
    /\ \E t \in Threads :
          \/ SpelledCall(t)
          \/ SpelledGetLock(t)
          \/ SpelledAcquire(t)
          \/ SpelledRelease(t)

\* No call has been made and the lock table is empty.
SpelledInit == Init /\ exists = {}

SpelledSpec == SpelledInit /\ [][SpelledNext]_vars

\* Every thread is scheduled: a step of a call that stays possible is
\* eventually taken.  Making a call is left to the caller.
FileFairSpec == FileSpec /\ \A t \in Threads : WF_vars(ThreadStep(t))

(***************************************************************************)
(* AsyncCommandRunner.run_command_async, a coroutine of the event loop.    *)
(* The loop runs one coroutine at a time, until it suspends or returns.    *)
(***************************************************************************)
\* The text argument run_command_async passes to create_subprocess_shell.
SubprocessTextArg == TRUE

\* asyncio.create_subprocess_shell: the loop's subprocess_shell rejects
\* text=True with ValueError("text must be False") before it starts anything.
CreateSubprocessShell(text) ==
    IF text THEN {"ValueError"} ELSE {"started", "OSError"}

\* except Exception as e: return "", str(e), 1      (error: the exception
\* that was caught)
ExceptReturn(e) ==
    [stdout |-> << >>, stderr |-> <<e>>, code |-> 1, error |-> e]

\* Leaving "async with self.semaphore": Semaphore.release()
TokenReleased(v) == v + 1

\* A coroutine calls run_command_async and the loop starts executing it.
RunCall(k) ==
    /\ loopTask = 0
    /\ rpc[k] = "idle"
    /\ loopTask' = k
    /\ rpc' = [rpc EXCEPT ![k] = "sem"]
    /\ rres' = [rres EXCEPT ![k] = NoResult]
    /\ UNCHANGED <<semaphore, waiters, running_processes, process_counter>>
    /\ UNCHANGED <<fileVars, bridgeVars, umVars, uiVars>>

\* asyncio.Semaphore.locked(): no token is free, or a coroutine waits.
Locked == semaphore = 0 \/ waiters # << >>

\* asyncio.Semaphore._wake_up_next(): the first waiter whose future is not
\* done gets a token and is made ready to run (0: there is none).
WakeUpNext(ws, pos) ==
    IF \E i \in DOMAIN ws : pos[ws[i]] = "blocked"
    THEN ws[CHOOSE i \in DOMAIN ws :
              /\ pos[ws[i]] = "blocked"
              /\ \A j \in 1..(i - 1) : pos[ws[j]] # "blocked"]
    ELSE 0

\* async with self.semaphore:  (entry, Semaphore.acquire()).  When the
\* semaphore is not locked the coroutine takes a token and goes on without
\* suspending; else it joins the waiters and suspends, and the loop is free
\* for other coroutines.  A waiter that has been woken is resumed by the
\* loop: it leaves the waiters, wakes the next waiter when a token is free,
\* and goes on with the token it was given.
AcquireToken(k) ==
    /\ <<loopTask, rpc[k]>> \in {<<k, "sem">>, <<0, "woken">>}
    /\ IF rpc[k] = "sem"
       THEN IF ~Locked
            THEN /\ semaphore' = semaphore - 1
                 /\ rpc' = [rpc EXCEPT ![k] = "spawn"]
                 /\ UNCHANGED <<waiters, loopTask>>
            ELSE /\ waiters' = Append(waiters, k)
                 /\ rpc' = [rpc EXCEPT ![k] = "blocked"]
                 /\ loopTask' = 0
                 /\ UNCHANGED semaphore
       ELSE LET rest == SelectSeq(waiters, LAMBDA j : j # k)
                next == IF semaphore > 0 THEN WakeUpNext(rest, rpc) ELSE 0
            IN /\ waiters' = rest
               /\ semaphore' = IF next # 0 THEN semaphore - 1 ELSE semaphore
               /\ rpc' = [j \in Tasks |->
                            IF j = k THEN "spawn"
                            ELSE IF j = next THEN "woken" ELSE rpc[j]]
               /\ loopTask' = k
    /\ UNCHANGED <<running_processes, process_counter, rres>>
    /\ UNCHANGED <<fileVars, bridgeVars, umVars, uiVars>>

\* process = await asyncio.create_subprocess_shell(command, ..., text=True)
\* raises; "except Exception as e: return "", str(e), 1" catches it.  No
\* process exists, nothing is registered.
Spawn(k) ==
    /\ loopTask = k
    /\ rpc[k] = "spawn"
    /\ \E outcome \in CreateSubprocessShell(SubprocessTextArg) :
         rres' = [rres EXCEPT ![k] = ExceptReturn(outcome)]
    /\ rpc' = [rpc EXCEPT ![k] = "exit"]
    /\ UNCHANGED <<semaphore, waiters, running_processes, process_counter,
                   loopTask>>
    /\ UNCHANGED <<fileVars, bridgeVars, umVars, uiVars>>

\* The return leaves "async with self.semaphore" (Semaphore.release()): the
\* token is released, the first waiter, if any, is given it and made ready
\* to run, and the coroutine ends.
ReleaseToken(k) ==
    /\ loopTask = k
    /\ rpc[k] = "exit"
    /\ LET next == WakeUpNext(waiters, rpc)
       IN /\ semaphore' = IF next # 0 THEN TokenReleased(semaphore) - 1
                          ELSE TokenReleased(semaphore)
          /\ rpc' = [j \in Tasks |->
                       IF j = k THEN "idle"
                       ELSE IF j = next THEN "woken" ELSE rpc[j]]
    /\ loopTask' = 0
    /\ UNCHANGED <<waiters, running_processes, process_counter, rres>>
    /\ UNCHANGED <<fileVars, bridgeVars, umVars, uiVars>>

(***************************************************************************)
(* The command process of a run_command_live call, and the UI loop.        *)
(***************************************************************************)
\* The UI event loop starts running: the loop object exists from then on.
LoopStarts ==
    /\ ~loopRunning
    /\ loopRunning' = TRUE
    /\ app_loop' = TRUE
    /\ UNCHANGED <<loop, bpc, proc, returncode, readers, writeVars, pipeOut, pipeErr,
                   output_queue, error_queue, stdout_lines, stderr_lines,
                   timedOut, scheduled, bres>>
    /\ UNCHANGED <<fileVars, runnerVars, callVars, stopVars, umVars, uiVars, uiRunVars>>

\* The UI event loop stops running; the loop object stays.
LoopStops ==
    /\ loopRunning
    /\ loopRunning' = FALSE
    /\ UNCHANGED <<app_loop, loop, bpc, proc, returncode, readers, writeVars, pipeOut, pipeErr,
                   output_queue, error_queue, stdout_lines, stderr_lines,
                   timedOut, scheduled, bres>>
    /\ UNCHANGED <<fileVars, runnerVars, callVars, stopVars, umVars, uiVars, uiRunVars>>

\* A process of the command writes a line to stdout or to stderr; the
\* write blocks while the pipe is full.  The writer is the shell Popen
\* started or a child of it that has inherited the pipes.  The shell that
\* cannot run the command writes one line, its message ("not found",
\* "Permission denied"), to stderr, and is still running then.
ProcWrites(w) ==
    /\ writer[w]
    /\ IF bkind[w] \in {"binary missing", "not executable"}
       THEN proc[w] = "running" /\ emitted[w] = 0
       ELSE emitted[w] < MaxLines \/ bkind[w] \in {"endless", "endless child"}
    /\ emitted' = [emitted EXCEPT ![w] = IF @ < MaxLines THEN @ + 1 ELSE @]
    /\ \/ /\ bkind[w] \notin {"binary missing", "not executable"}
          /\ Len(pipeOut[w]) < PipeCapacity
          /\ pipeOut' = [pipeOut EXCEPT ![w] = Append(@, emitted'[w])]
          /\ UNCHANGED pipeErr
       \/ /\ Len(pipeErr[w]) < PipeCapacity
          /\ pipeErr' = [pipeErr EXCEPT ![w] = Append(@, emitted'[w])]
          /\ UNCHANGED pipeOut
    /\ UNCHANGED <<loopVars, bpc, proc, returncode, readers, writer,
                   output_queue, error_queue, stdout_lines, stderr_lines,
                   timedOut, scheduled, bres>>
    /\ UNCHANGED <<fileVars, runnerVars, callVars, stopVars, umVars, uiVars, uiRunVars>>

\* What the end of the shell leaves of the writer: a command the shell has
\* waited for has ended before it; a command it has put in the background
\* ("cmd &") lives on and keeps the write ends of the pipes.
AfterExit(kind) ==
    CASE kind = "runs" -> BOOLEAN
      [] kind = "endless child" -> {TRUE}
      [] OTHER -> {FALSE}

\* The process Popen started, the /bin/sh of shell=True, ends by itself.
\* The shell that does not find the binary of the command ends with 127,
\* the one that may not execute its file with 126, each after it has written
\* its message; the exit itself writes nothing.
ProcExits(w) ==
    /\ proc[w] = "running"
    /\ bkind[w] # "endless"
    /\ bkind[w] \in {"binary missing", "not executable"} => emitted[w] = 1
    /\ proc' = [proc EXCEPT ![w] = "exited"]
    /\ \E alive_after \in AfterExit(bkind[w]) :
          writer' = [writer EXCEPT ![w] = alive_after]
    /\ \E c \in (CASE bkind[w] = "binary missing" -> ShellNotFound
                   [] bkind[w] = "not executable" -> ShellNotExecutable
                   [] OTHER -> ExitCodes) :
         returncode' = [returncode EXCEPT ![w] = c]
    /\ UNCHANGED <<loopVars, bpc, readers, emitted, pipeOut, pipeErr,
                   output_queue, error_queue, stdout_lines, stderr_lines,
                   timedOut, scheduled, bres>>
    /\ UNCHANGED <<fileVars, runnerVars, callVars, stopVars, umVars, uiVars, uiRunVars>>

\* The wall clock passes the 300 s of the polling loop.
TimePasses(w) ==
    /\ bpc[w] \in {"b_poll", "b_out", "b_err"}
    /\ ~timedOut[w]
    /\ timedOut' = [timedOut EXCEPT ![w] = TRUE]
    /\ UNCHANGED <<loopVars, bpc, proc, returncode, readers, writeVars,
                   pipeOut, pipeErr, output_queue, error_queue, stdout_lines,
                   stderr_lines, scheduled, bres>>
    /\ UNCHANGED <<fileVars, runnerVars, callVars, stopVars, umVars, uiVars, uiRunVars>>

\* stream_output on stdout: output_queue.put(line.strip()).  The queue is
\* unbounded; the model lets it hold MaxLines lines.
ReadStdout(w) ==
    /\ readers[w]
    /\ pipeOut[w] # << >>
    /\ Len(output_queue[w]) < MaxLines
    /\ output_queue' = [output_queue EXCEPT ![w] = Append(@, Head(pipeOut[w]))]
    /\ pipeOut' = [pipeOut EXCEPT ![w] = Tail(@)]
    /\ UNCHANGED <<loopVars, bpc, proc, returncode, readers, writeVars,
                   pipeErr, error_queue, stdout_lines, stderr_lines, timedOut,
                   scheduled, bres>>
    /\ UNCHANGED <<fileVars, runnerVars, callVars, stopVars, umVars, uiVars, uiRunVars>>

\* stream_output on stderr: error_queue.put(line.strip())
ReadStderr(w) ==
    /\ readers[w]
    /\ pipeErr[w] # << >>
    /\ Len(error_queue[w]) < MaxLines
    /\ error_queue' = [error_queue EXCEPT ![w] = Append(@, Head(pipeErr[w]))]
    /\ pipeErr' = [pipeErr EXCEPT ![w] = Tail(@)]
    /\ UNCHANGED <<loopVars, bpc, proc, returncode, readers, writeVars,
                   pipeOut, output_queue, stdout_lines, stderr_lines, timedOut,
                   scheduled, bres>>
    /\ UNCHANGED <<fileVars, runnerVars, callVars, stopVars, umVars, uiVars, uiRunVars>>

(***************************************************************************)
(* ThreadSafeTUIWrapper.run_command_live, run by a worker thread.          *)
(***************************************************************************)
\* _get_event_loop(): self._loop is taken from tui_app._loop while it is
\* None; a worker thread has no running loop of its own to fall back on.
GetEventLoop == app_loop

\* "if loop and loop.is_running()" on the local loop of the call, which was
\* fetched once at its beginning: is_running() is read at the moment of the
\* test, the loop object is not looked up again.
LoopUsable(w) == loop[w] /\ loopRunning

\* asyncio.run_coroutine_threadsafe(coro, loop) "if loop and loop.is_running()"
Schedule(w, kind, n) ==
    IF LoopUsable(w)
    THEN [scheduled EXCEPT ![w][kind] = @ + n]
    ELSE scheduled

\* run_coroutine_threadsafe(add_status_message_async(.., "error"), loop)
\* "if loop and loop.is_running()": a status message of severity error.
ScheduleError(w) ==
    IF LoopUsable(w)
    THEN [scheduled EXCEPT ![w].status = @ + 1, ![w].errors = @ + 1]
    ELSE scheduled

\* The process, the reader threads, the queues and the line lists of a call
\* are gone when the call has returned.
CallStateDropped(w) ==
    /\ proc' = [proc EXCEPT ![w] = "none"]
    /\ returncode' = [returncode EXCEPT ![w] = 0]
    /\ readers' = [readers EXCEPT ![w] = FALSE]
    /\ emitted' = [emitted EXCEPT ![w] = 0]
    /\ writer' = [writer EXCEPT ![w] = FALSE]
    /\ pipeOut' = [pipeOut EXCEPT ![w] = << >>]
    /\ pipeErr' = [pipeErr EXCEPT ![w] = << >>]
    /\ output_queue' = [output_queue EXCEPT ![w] = << >>]
    /\ error_queue' = [error_queue EXCEPT ![w] = << >>]
    /\ stdout_lines' = [stdout_lines EXCEPT ![w] = << >>]
    /\ stderr_lines' = [stderr_lines EXCEPT ![w] = << >>]
    /\ timedOut' = [timedOut EXCEPT ![w] = FALSE]

\* The call, up to the scheduling of start_command_async, with arguments of
\* one of the given kinds: loop = self._get_event_loop() is fetched here.
BridgeCallOf(w, kinds) ==
    /\ bpc[w] = "idle"
    /\ bpc' = [bpc EXCEPT ![w] = "b_spawn"]
    /\ loop' = [loop EXCEPT ![w] = GetEventLoop]
    /\ scheduled' = [scheduled EXCEPT ![w] =
                        [NoneScheduled EXCEPT
                            !.start = IF GetEventLoop /\ loopRunning
                                      THEN 1 ELSE 0]]
    /\ bres' = [bres EXCEPT ![w] = NoResult]
    /\ \E b \in kinds : bkind' = [bkind EXCEPT ![w] = b]
    /\ UNCHANGED <<loopRunning, app_loop, proc, returncode, readers, writeVars, pipeOut,
                   pipeErr, output_queue, error_queue, stdout_lines,
                   stderr_lines, timedOut>>
    /\ UNCHANGED <<rcmd, rtimeout, calledBack>>
    /\ UNCHANGED <<fileVars, runnerVars, stopVars, umVars, uiVars, uiRunVars>>

BridgeCall(w) == BridgeCallOf(w, BridgeKinds)

\* proc = subprocess.Popen(command, shell=True, ...): the process runs.  No
\* admission token is taken and the process is put in no registry.
BridgeSpawn(w) ==
    /\ bpc[w] = "b_spawn"
    /\ bkind[w] # "workdir missing"
    /\ proc' = [proc EXCEPT ![w] = "running"]
    /\ writer' = [writer EXCEPT ![w] = TRUE]
    /\ bpc' = [bpc EXCEPT ![w] = "b_threads"]
    /\ UNCHANGED <<loopVars, returncode, readers, emitted, pipeOut, pipeErr,
                   output_queue, error_queue, stdout_lines, stderr_lines,
                   timedOut, scheduled, bres>>
    /\ UNCHANGED <<fileVars, runnerVars, callVars, stopVars, umVars, uiVars, uiRunVars>>

\* Popen raises (the working directory is missing, no process can be
\* forked, ...):
\* "except Exception as e" schedules a status message and returns "", str(e), 1.
BridgeSpawnFails(w) ==
    /\ bpc[w] = "b_spawn"
    /\ scheduled' = ScheduleError(w)
    /\ bres' = [bres EXCEPT ![w] =
                  [stdout |-> << >>, stderr |-> <<"OSError">>, code |-> 1,
                   error |-> "OSError"]]
    /\ bpc' = [bpc EXCEPT ![w] = "idle"]
    /\ CallStateDropped(w)
    /\ UNCHANGED loopVars
    /\ UNCHANGED <<fileVars, runnerVars, callVars, stopVars, umVars, uiVars, uiRunVars>>

\* stdout_thread.start(); stderr_thread.start()
BridgeStartReaders(w) ==
    /\ bpc[w] = "b_threads"
    /\ readers' = [readers EXCEPT ![w] = TRUE]
    /\ bpc' = [bpc EXCEPT ![w] = "b_poll"]
    /\ UNCHANGED <<loopVars, proc, returncode, writeVars, pipeOut, pipeErr,
                   output_queue, error_queue, stdout_lines, stderr_lines,
                   timedOut, scheduled, bres>>
    /\ UNCHANGED <<fileVars, runnerVars, callVars, stopVars, umVars, uiVars, uiRunVars>>

\* One turn of "while proc.poll() is None and elapsed < timeout", statement
\* by statement: the reader threads go on putting lines between two
\* get_nowait() calls, and the 300 s are tested between two turns only.
\* "while proc.poll() is None and elapsed < timeout" holds: the turn begins.
PollEnters(w) ==
    /\ bpc[w] = "b_poll"
    /\ proc[w] = "running"
    /\ ~timedOut[w]
    /\ bpc' = [bpc EXCEPT ![w] = "b_out"]
    /\ UNCHANGED <<loopVars, proc, returncode, readers, writeVars, pipeOut,
                   pipeErr, output_queue, error_queue, stdout_lines,
                   stderr_lines, timedOut, scheduled, bres>>
    /\ UNCHANGED <<fileVars, runnerVars, callVars, stopVars, umVars, uiVars,
                   uiRunVars>>

\* The lines collected, of which the model keeps the first MaxLines.
Collected(lines, line, room) == IF room THEN Append(lines, line) ELSE lines

\* "while True: line = output_queue.get_nowait() ... except queue.Empty":
\* the inner loop is left only when the queue is found empty.
InnerLoop(q, next) == IF q # << >> THEN "stay" ELSE next

\* One turn of the inner loop on stdout: a line is taken, appended and an
\* add_command_output_async scheduled for it; or the queue is empty.
TakeStdout(w) ==
    /\ bpc[w] = "b_out"
    /\ IF output_queue[w] # << >>
       THEN /\ stdout_lines' =
                 [stdout_lines EXCEPT ![w] =
                    Collected(@, Head(output_queue[w]),
                              Len(@) + Len(stderr_lines[w]) < MaxLines)]
            /\ output_queue' = [output_queue EXCEPT ![w] = Tail(@)]
            /\ scheduled' = Schedule(w, "output", 1)
       ELSE UNCHANGED <<stdout_lines, output_queue, scheduled>>
    /\ bpc' = [bpc EXCEPT ![w] =
                 IF InnerLoop(output_queue[w], "b_err") = "stay"
                 THEN @ ELSE "b_err"]
    /\ UNCHANGED <<loopVars, proc, returncode, readers, writeVars, pipeOut,
                   pipeErr, error_queue, stderr_lines, timedOut, bres>>
    /\ UNCHANGED <<fileVars, runnerVars, callVars, stopVars, umVars, uiVars,
                   uiRunVars>>

\* One turn of the inner loop on stderr; time.sleep(0.1) when it is left.
TakeStderr(w) ==
    /\ bpc[w] = "b_err"
    /\ IF error_queue[w] # << >>
       THEN /\ stderr_lines' =
                 [stderr_lines EXCEPT ![w] =
                    Collected(@, Head(error_queue[w]),
                              Len(@) + Len(stdout_lines[w]) < MaxLines)]
            /\ error_queue' = [error_queue EXCEPT ![w] = Tail(@)]
            /\ scheduled' = Schedule(w, "output", 1)
       ELSE UNCHANGED <<stderr_lines, error_queue, scheduled>>
    /\ bpc' = [bpc EXCEPT ![w] =
                 IF InnerLoop(error_queue[w], "b_poll") = "stay"
                 THEN @ ELSE "b_poll"]
    /\ UNCHANGED <<loopVars, proc, returncode, readers, writeVars, pipeOut,
                   pipeErr, output_queue, stdout_lines, timedOut, bres>>
    /\ UNCHANGED <<fileVars, runnerVars, callVars, stopVars, umVars, uiVars,
                   uiRunVars>>

\* The loop condition fails: the process has ended or the time is up.
BridgePollEnds(w) ==
    /\ bpc[w] = "b_poll"
    /\ proc[w] # "running" \/ timedOut[w]
    /\ bpc' = [bpc EXCEPT ![w] = "b_wait"]
    /\ timedOut' = [timedOut EXCEPT ![w] = FALSE]
    /\ UNCHANGED <<loopVars, proc, returncode, readers, writeVars, pipeOut,
                   pipeErr, output_queue, error_queue, stdout_lines,
                   stderr_lines, scheduled, bres>>
    /\ UNCHANGED <<fileVars, runnerVars, callVars, stopVars, umVars, uiVars, uiRunVars>>

\* What proc.kill() leaves of the writer: proc is the /bin/sh of
\* Popen(shell=True) and SIGKILL goes to that process alone.  A command the
\* shell runs in its own place dies with it; a command the shell has forked
\* (a pipeline, "cmd; cmd") lives on and keeps the pipes.
AfterKill == BOOLEAN

\* proc.wait(timeout=remaining); except TimeoutExpired: proc.kill(); proc.wait()
BridgeWait(w) ==
    /\ bpc[w] = "b_wait"
    /\ IF proc[w] = "running"
       THEN /\ proc' = [proc EXCEPT ![w] = "killed"]
            /\ returncode' = [returncode EXCEPT ![w] = -9]
            /\ \E alive_after \in AfterKill :
                  writer' = [writer EXCEPT ![w] = alive_after]
       ELSE UNCHANGED <<proc, returncode, writer>>
    /\ bpc' = [bpc EXCEPT ![w] = "b_drain"]
    /\ UNCHANGED <<loopVars, readers, emitted, pipeOut, pipeErr,
                   output_queue, error_queue, stdout_lines, stderr_lines,
                   timedOut, scheduled, bres>>
    /\ UNCHANGED <<fileVars, runnerVars, callVars, stopVars, umVars, uiVars, uiRunVars>>

\* "Collect any remaining output", statement by statement.  One turn of
\* "while True: line = output_queue.get_nowait(); stdout_lines.append(line)":
\* a line is taken, or the queue is found empty and the loop on error_queue
\* begins.  Nothing is scheduled for these lines, and the reader threads go
\* on putting lines between two turns.
DrainStdout(w) ==
    /\ bpc[w] = "b_drain"
    /\ IF output_queue[w] # << >>
       THEN /\ stdout_lines' =
                 [stdout_lines EXCEPT ![w] =
                    Collected(@, Head(output_queue[w]),
                              Len(@) + Len(stderr_lines[w]) < MaxLines)]
            /\ output_queue' = [output_queue EXCEPT ![w] = Tail(@)]
       ELSE UNCHANGED <<stdout_lines, output_queue>>
    /\ bpc' = [bpc EXCEPT ![w] =
                 IF InnerLoop(output_queue[w], "b_drain_err") = "stay"
                 THEN @ ELSE "b_drain_err"]
    /\ UNCHANGED <<loopVars, proc, returncode, readers, writeVars, pipeOut,
                   pipeErr, error_queue, stderr_lines, timedOut, scheduled,
                   bres>>
    /\ UNCHANGED <<fileVars, runnerVars, callVars, stopVars, umVars, uiVars,
                   uiRunVars>>

\* One turn of the same loop on error_queue; when it finds the queue empty
\* the drain is over, whatever output_queue has got meanwhile.
DrainStderr(w) ==
    /\ bpc[w] = "b_drain_err"
    /\ IF error_queue[w] # << >>
       THEN /\ stderr_lines' =
                 [stderr_lines EXCEPT ![w] =
                    Collected(@, Head(error_queue[w]),
                              Len(@) + Len(stdout_lines[w]) < MaxLines)]
            /\ error_queue' = [error_queue EXCEPT ![w] = Tail(@)]
       ELSE UNCHANGED <<stderr_lines, error_queue>>
    /\ bpc' = [bpc EXCEPT ![w] =
                 IF InnerLoop(error_queue[w], "b_finish") = "stay"
                 THEN @ ELSE "b_finish"]
    /\ UNCHANGED <<loopVars, proc, returncode, readers, writeVars, pipeOut,
                   pipeErr, output_queue, stdout_lines, timedOut, scheduled,
                   bres>>
    /\ UNCHANGED <<fileVars, runnerVars, callVars, stopVars, umVars, uiVars,
                   uiRunVars>>

\* finish_command_async is scheduled; return stdout, stderr, proc.returncode
BridgeFinish(w) ==
    /\ bpc[w] = "b_finish"
    /\ scheduled' = Schedule(w, "finish", 1)
    /\ bres' = [bres EXCEPT ![w] =
                  [stdout |-> stdout_lines[w], stderr |-> stderr_lines[w],
                   code |-> returncode[w], error |-> ""]]
    /\ bpc' = [bpc EXCEPT ![w] = "idle"]
    /\ CallStateDropped(w)
    /\ UNCHANGED loopVars
    /\ UNCHANGED <<fileVars, runnerVars, callVars, stopVars, umVars, uiVars, uiRunVars>>

(***************************************************************************)
(* The command runner and the bridge as a whole.                           *)
(***************************************************************************)
\* The steps of coroutine k, whatever the arguments of its calls.
TaskStep(k) ==
  /\ UNCHANGED <<callVars, stopVars, uiRunVars>>
  /\
    \/ RunCall(k)
    \/ AcquireToken(k)
    \/ Spawn(k)
    \/ ReleaseToken(k)

\* The steps of worker w in run_command_live, of the stderr reader and of
\* the shell, for a command that writes nothing and ends before the time is
\* up: all that is written is the message of a shell that cannot run the
\* command.
SilentBridgeStep(w) ==
    \/ BridgeCall(w)
    \/ BridgeSpawn(w)
    \/ BridgeSpawnFails(w)
    \/ BridgeStartReaders(w)
    \/ PollEnters(w)
    \/ TakeStdout(w)
    \/ TakeStderr(w)
    \/ BridgePollEnds(w)
    \/ BridgeWait(w)
    \/ DrainStdout(w)
    \/ DrainStderr(w)
    \/ BridgeFinish(w)
    \/ bkind[w] \in {"binary missing", "not executable"} /\ ProcWrites(w)
    \/ ProcExits(w)
    \/ ReadStderr(w)

\* The steps of worker w in run_command_live, of its reader threads and of
\* its command, for any command.
BridgeStep(w) ==
    \/ SilentBridgeStep(w)
    \/ ProcWrites(w)
    \/ TimePasses(w)
    \/ ReadStdout(w)

\* The command runner starts with no file on disk.
RunnerInit0 == Init /\ exists = {}

\* The coroutines of the event loop and one worker thread, with any command
\* and with the UI loop starting and stopping.
RunnerNext ==
    \/ \E k \in Tasks : TaskStep(k)
    \/ LoopStarts
    \/ LoopStops
    \/ BridgeStep(1)

RunnerSpec == RunnerInit0 /\ [][RunnerNext]_vars

\* The coroutines of the event loop and all the worker threads, each running
\* silent commands, while the UI loop is not running.
ConcurrentNext ==
    \/ \E k \in Tasks : TaskStep(k)
    \/ \E w \in Workers : SilentBridgeStep(w)

ConcurrentSpec == RunnerInit0 /\ [][ConcurrentNext]_vars

(***************************************************************************)
(* run_command_async with its arguments, and stop_all_processes.           *)
(***************************************************************************)
\* A call of run_command_async(command, workdir, ..., timeout).
CommandCall(k) ==
    /\ RunCall(k)
    /\ \E c \in Commands : rcmd' = [rcmd EXCEPT ![k] = c]
    /\ \E t \in Timeouts : rtimeout' = [rtimeout EXCEPT ![k] = t]
    /\ calledBack' = [calledBack EXCEPT ![k] = << >>]
    /\ UNCHANGED <<bkind, stopVars, uiRunVars>>

\* The steps of coroutine k inside a call.
CommandStep(k) ==
  /\ UNCHANGED <<callVars, stopVars, uiRunVars>>
  /\
    \/ AcquireToken(k)
    \/ Spawn(k)
    \/ ReleaseToken(k)

\* A faulty stop_all_processes without the try/except around terminate():
\* the first failure ends the loop, and the registry is not cleared.
StopsAtFirstFailure(reg) ==
    {e \in reg : \A d \in reg : d[1] <= e[1] => alive[d[2]]}

\* for process in self.running_processes.values(): process.terminate()
\* reaches the entries of the registry, in the order of insertion; the call
\* fails, and is passed over, for a process that has ended.
Terminated(reg) == {e \in reg : alive[e[2]]}

\* stop_all_processes, under self._lock: SIGTERM to every process of the
\* registry that is there to take it, then self.running_processes.clear().
\* It does not wait.
StopAllProcesses ==
    /\ stops < MaxStops
    /\ stops' = stops + 1
    /\ signalled' =
         [p \in ProcIds |->
            IF \E e \in Terminated(running_processes) : e[2] = p
            THEN Append(signalled[p], "SIGTERM")
            ELSE signalled[p]]
    /\ stopped' = running_processes
    /\ hit' = {w \in Workers : proc[w] = "running"}
    /\ running_processes' = {}
    /\ UNCHANGED <<semaphore, waiters, process_counter, loopTask, rpc, rres,
                   alive>>

\* A call of AsyncCommandRunner.stop_all_processes by an owner of the
\* runner.
StopAll ==
    /\ StopAllProcesses
    /\ UNCHANGED <<fileVars, bridgeVars, callVars, umVars, uiVars, uiRunVars>>

\* Coroutines calling run_command_async with any arguments, one worker
\* thread with silent commands, and calls of stop_all_processes.
CommandNext ==
    \/ \E k \in Tasks : CommandCall(k) \/ CommandStep(k)
    \/ SilentBridgeStep(1)
    \/ StopAll

CommandSpec == RunnerInit0 /\ [][CommandNext]_vars

(***************************************************************************)
(* stop_all_processes applied to a registry that holds processes.          *)
(***************************************************************************)
\* self.running_processes[process_id] = process
RegistryEntries == {<<p, p>> : p \in ProcIds}

\* A runner whose registry holds any of the processes, each of them still
\* running or ended already.
RegistryInit ==
    /\ FileInit /\ exists = {}
    /\ semaphore = MaxConcurrent
    /\ waiters = << >>
    /\ running_processes \in SUBSET RegistryEntries
    /\ process_counter = NumProcs
    /\ loopTask = 0
    /\ rpc = [k \in Tasks |-> "idle"]
    /\ rres = [k \in Tasks |-> NoResult]
    /\ BridgeInit /\ CallInit /\ UpdateInit /\ UIInit /\ UIRunInit
    /\ WrapperInit
    /\ stops = 0
    /\ alive \in [ProcIds -> BOOLEAN]
    /\ signalled = [p \in ProcIds |-> << >>]
    /\ stopped = {}
    /\ hit = {}

\* A process ends, by itself or because of a signal it got.
ProcessEnds(p) ==
    /\ alive[p]
    /\ alive' = [alive EXCEPT ![p] = FALSE]
    /\ UNCHANGED <<stops, signalled, stopped, hit>>
    /\ UNCHANGED <<fileVars, runnerVars, bridgeVars, callVars, umVars, uiVars, uiRunVars>>

StopNext ==
    \/ StopAll
    \/ \E p \in ProcIds : ProcessEnds(p)
    \/ \E k \in Tasks : CommandCall(k) \/ CommandStep(k)

StopSpec == RegistryInit /\ [][StopNext]_vars

(***************************************************************************)
(* stop_all_processes while a command of the bridge runs.                  *)
(***************************************************************************)
\* The steps the worker thread takes by itself inside run_command_live.
WorkerStep(w) ==
    \/ BridgeSpawn(w)
    \/ BridgeSpawnFails(w)
    \/ BridgeStartReaders(w)
    \/ PollEnters(w)
    \/ TakeStdout(w)
    \/ TakeStderr(w)
    \/ BridgePollEnds(w)
    \/ BridgeWait(w)
    \/ DrainStdout(w)
    \/ DrainStderr(w)
    \/ BridgeFinish(w)

StopRunNext ==
    \/ StopAll
    \/ BridgeCallOf(1, EndlessKinds)
    \/ BridgeStep(1)
    \/ \E k \in Tasks : TaskStep(k)

\* Commands of every kind, those that write without end included.  The
\* worker thread and the reader threads are scheduled and the clock
\* advances.  Nothing makes the command end or write, and nothing makes the
\* callers call.
StopRunFairSpec ==
    /\ RunnerInit0 /\ [][StopRunNext]_vars
    /\ WF_vars(WorkerStep(1))
    /\ WF_vars(TimePasses(1))
    /\ WF_vars(ReadStdout(1))
    /\ WF_vars(ReadStderr(1))

(***************************************************************************)
(* The UI: DeepDomainTUI.add_status_message, update_phase, start_command,  *)
(* add_command_output and finish_command, which act on the two panels.     *)
(***************************************************************************)
MsgTypes == {"success", "info", "warning", "error"}

\* StatusPanel.add_status_message: the icon of a message type.
Icon(msg_type) ==
    CASE msg_type = "success" -> "check"
      [] msg_type = "info" -> "info"
      [] msg_type = "warning" -> "warning"
      [] OTHER -> "cross"

\* StatusPanel.add_status_message:
\* self.status_messages = self.status_messages + [formatted_msg]
Appended(log, entry) == Append(log, entry)

\* A text is the sequence of its lines, the pieces text.split('\n') gives:
\* "" is <<"">>, "a\n\nb" is <<"a", "", "b">>.  A line of white space only
\* is " ".
Texts == {<<" ">>, <<"a">>, <<"a", "", "b">>}

\* line.strip()
Strip(line) == IF line = " " THEN "" ELSE line

\* "not text or not text.strip()"
Blank(text) == \A i \in 1..Len(text) : Strip(text[i]) = ""

\* "if line.strip():"
NotBlankLine(line) == Strip(line) # ""

\* LiveOutputPanel.add_output: nothing is written for a text that is empty
\* or white space only; else each line of text.split('\n') that is not
\* blank is written to the log as it is.
OutputLines(text) ==
    IF Blank(text) THEN << >> ELSE SelectSeq(text, NotBlankLine)

\* The UI after the call of method m with arguments d.
ApplyCall(u, m, d) ==
    CASE m = "add_status_message" ->
            [u EXCEPT !.status_messages = Appended(@, <<Icon(d[2]), d[1]>>)]
      [] m = "update_phase" -> [u EXCEPT !.current_phase = <<d[1], d[2]>>]
      [] m = "start_command" ->
            [u EXCEPT !.current_command = d[1], !.command_running = TRUE,
                      !.output = << >>]
      [] m = "add_command_output" ->
            [u EXCEPT !.output = @ \o OutputLines(d[1])]
      [] m = "finish_command" -> [u EXCEPT !.command_running = FALSE]
      [] m = "clear_messages" -> [u EXCEPT !.status_messages = << >>]
      [] m = "clear_output" -> [u EXCEPT !.output = << >>]

\* The calls made on one StatusPanel: message n has the text n, the message
\* types come in rotation, and the phase is updated in between.
MsgTypeOf(n) == <<"info", "success", "warning", "error">>[(n % 4) + 1]
Phases == {"Ready", "Complete"}
Progress == {0, 100}

\* StatusPanel.add_status_message(message, msg_type)
PanelAddStatusMessage ==
    /\ Len(ui.status_messages) < MaxMessages
    /\ LET n == Len(ui.status_messages) + 1
       IN ui' = ApplyCall(ui, "add_status_message",
                          <<ToString(n), MsgTypeOf(n)>>)
    /\ UNCHANGED <<pending, direct, uiRunVars>>
    /\ UNCHANGED <<fileVars, runnerVars, bridgeVars, callVars, stopVars,
                   umVars>>

\* StatusPanel.update_phase(phase, progress)
PanelUpdatePhase(phase, progress) ==
    /\ ui' = ApplyCall(ui, "update_phase", <<phase, progress>>)
    /\ UNCHANGED <<pending, direct, uiRunVars>>
    /\ UNCHANGED <<fileVars, runnerVars, bridgeVars, callVars, stopVars,
                   umVars>>

\* StatusPanel.clear_messages(): self.status_messages = []
PanelClearMessages ==
    /\ ui' = ApplyCall(ui, "clear_messages", << >>)
    /\ UNCHANGED <<pending, direct, uiRunVars>>
    /\ UNCHANGED <<fileVars, runnerVars, bridgeVars, callVars, stopVars,
                   umVars>>

\* LiveOutputPanel.add_output(text)
PanelAddOutput(text) ==
    /\ Len(ui.output) < MaxLines
    /\ ui' = ApplyCall(ui, "add_command_output", <<text>>)
    /\ UNCHANGED <<pending, direct, uiRunVars>>
    /\ UNCHANGED <<fileVars, runnerVars, bridgeVars, callVars, stopVars,
                   umVars>>

\* LiveOutputPanel.clear_output(): the log is cleared.
PanelClearOutput ==
    /\ ui' = ApplyCall(ui, "clear_output", << >>)
    /\ UNCHANGED <<pending, direct, uiRunVars>>
    /\ UNCHANGED <<fileVars, runnerVars, bridgeVars, callVars, stopVars,
                   umVars>>

StatusNext ==
    \/ PanelAddStatusMessage
    \/ PanelClearMessages
    \/ \E text \in Texts : PanelAddOutput(text)
    \/ PanelClearOutput
    \/ \E ph \in Phases, pr \in Progress : PanelUpdatePhase(ph, pr)

StatusSpec == RunnerInit0 /\ [][StatusNext]_vars

(***************************************************************************)
(* TUIUpdateManager: start, stop, queue_update and the consumer task, all  *)
(* on the event loop.  Coroutines interleave at their awaits only.         *)
(***************************************************************************)
\* The update types _apply_update knows.
UpdateTypes == {"status_message", "phase_update", "command_output",
                "command_start", "command_finish"}

\* _apply_update: the method of the UI it calls for an update type.
UIMethod(t) ==
    CASE t = "status_message" -> "add_status_message"
      [] t = "phase_update" -> "update_phase"
      [] t = "command_output" -> "add_command_output"
      [] t = "command_start" -> "start_command"
      [] t = "command_finish" -> "finish_command"

\* An event is <<update type, number of the event, payload, data>>: data is
\* what was passed to queue_update, and the payload says what becomes of
\* it: "ok" (data of the shape the update type takes, and a UI method that
\* returns), "malformed" (data that is no pair) or "raises" (the UI method
\* raises).
\* The message types and the progress the producers pass.
PassedTypes == {"success", "error"}

\* The data a producer of the program passes to queue_update with event n
\* of an update type: (message, msg_type), (phase, progress), a text, the
\* command, None.
ProducerData(t, n) ==
    CASE t = "status_message" -> {<<ToString(n), ty>> : ty \in PassedTypes}
      [] t = "phase_update" -> {<<ToString(n), pr>> : pr \in Progress}
      [] t = "command_output" -> Texts
      [] t = "command_start" -> {"echo hi"}
      [] OTHER -> {"None"}

\* _apply_update: the arguments of the call on the UI, from the data of the
\* event ("message, msg_type = data", "output = data", ...).
UIArgs(t, data) ==
    CASE t \in {"status_message", "phase_update"} -> data
      [] t \in {"command_output", "command_start"} -> <<data>>
      [] OTHER -> << >>

\* _apply_update makes the call on the UI and the call returns: the update
\* type is known, the UI method does not raise, and the data unpacks
\* ("message, msg_type = data", "phase, progress = data"; add_output needs a
\* string).
Applies(e) ==
    /\ e[1] \in UpdateTypes
    /\ e[3] # "raises"
    /\ e[3] = "malformed" => e[1] \in {"command_start", "command_finish"}

\* Events that are not applied, and one with odd data that is.
FaultyEvents == {<<"bogus", "ok", "None">>,
                 <<"status_message", "malformed", "no pair">>,
                 <<"phase_update", "raises", <<"2", 0>>>>}

\* A faulty queue that hands out its newest item.
QueueGetsLast(q) == q[Len(q)]

\* asyncio.Queue.get(): the oldest item.
QueueGet(q) == Head(q)

\* A faulty start() without "if self._running: return".
StartsAnyway(r) == FALSE

\* start(): if self._running: return
AlreadyRunning(r) == r

\* start(): nothing when running already; else the flag is set and the
\* consumer task is created.  The owner calls start and stop in turn.
StartCall ==
    /\ ~stopping
    /\ Len(lifecycle) < MaxLifecycle
    /\ lifecycle' = Append(lifecycle, "start")
    /\ IF AlreadyRunning(running)
       THEN UNCHANGED <<running, update_task, consumers>>
       ELSE /\ running' = TRUE
            /\ update_task' = "waiting"
            /\ consumers' = consumers + 1
    /\ UNCHANGED <<update_queue, taken, applied, awaitVars, enqueued>>

UMStart ==
    /\ StartCall
    /\ UNCHANGED <<fileVars, runnerVars, bridgeVars, callVars, stopVars, uiVars, uiRunVars>>

\* stop(): self._running = False; if self.update_task: the task is cancelled
\* and awaited.  A task that has ended is awaited without suspending.
StopCall ==
    /\ ~stopping
    /\ Len(lifecycle) < MaxLifecycle
    /\ lifecycle' = Append(lifecycle, "stop")
    /\ running' = FALSE
    /\ stopping' = (update_task # "none")
    /\ UNCHANGED <<update_task, update_queue, taken, applied, enqueued,
                   consumers>>

UMStop ==
    /\ StopCall
    /\ UNCHANGED unmounting
    /\ UNCHANGED <<fileVars, runnerVars, bridgeVars, callVars, stopVars, uiVars, uiRunVars>>

\* The cancellation reaches the consumer while its get() is pending: the
\* task ends with CancelledError.
UMCancelled ==
    /\ ~running /\ update_task = "waiting"
    /\ update_task' = "none"
    /\ consumers' = consumers - 1
    /\ UNCHANGED <<running, update_queue, taken, applied, awaitVars, enqueued,
                   lifecycle>>
    /\ UNCHANGED <<fileVars, runnerVars, bridgeVars, callVars, stopVars, uiVars, uiRunVars>>

\* A faulty stop() that returns without awaiting the task.
NotAwaited(pos) == TRUE

\* stop(): await self.update_task
Awaited(pos) == pos = "none"

\* stop() returns to the coroutine that called it.
UMStopReturns ==
    /\ stopping /\ ~unmounting
    /\ Awaited(update_task)
    /\ stopping' = FALSE
    /\ UNCHANGED <<running, update_task, update_queue, taken, applied,
                   unmounting, enqueued, consumers, lifecycle>>
    /\ UNCHANGED <<fileVars, runnerVars, bridgeVars, callVars, stopVars, uiVars, uiRunVars>>

\* self.update_queue = asyncio.Queue(): put() finds room whatever the queue
\* holds.
QueueHasRoom(q) == TRUE

\* await self.update_queue.put((update_type, data)); put() suspends the
\* caller while the queue has no room.
Enqueue(t, payload, data) ==
    /\ Len(enqueued) < MaxEvents
    /\ QueueHasRoom(update_queue)
    /\ update_queue' = Append(update_queue,
                              <<t, Len(enqueued) + 1, payload, data>>)
    /\ enqueued' = Append(enqueued, <<t, Len(enqueued) + 1, payload, data>>)
    /\ UNCHANGED <<running, update_task, taken, applied, awaitVars, consumers,
                   lifecycle>>

\* queue_update(update_type, data), as the producers of the program call it.
QueueUpdate(t) ==
    /\ \E data \in ProducerData(t, Len(enqueued) + 1) : Enqueue(t, "ok", data)
    /\ UNCHANGED <<fileVars, runnerVars, bridgeVars, callVars, stopVars, uiVars, uiRunVars>>

\* queue_update with an update type _apply_update does not know, with data
\* of another shape, or for a UI whose method raises.
QueueFaulty(f) ==
    /\ Enqueue(f[1], f[2], f[3])
    /\ UNCHANGED <<fileVars, runnerVars, bridgeVars, callVars, stopVars, uiVars, uiRunVars>>

\* The get() inside asyncio.wait_for(self.update_queue.get(), timeout=0.1)
\* takes an item; the consumer is resumed later.  (Without an item the wait
\* times out and the loop goes round, which changes nothing.)
UMGet ==
    /\ update_task = "waiting"
    /\ update_queue # << >>
    /\ taken' = <<QueueGet(update_queue)>>
    /\ update_queue' = Tail(update_queue)
    /\ update_task' = "taken"
    /\ UNCHANGED <<running, applied, awaitVars, enqueued, consumers, lifecycle>>
    /\ UNCHANGED <<fileVars, runnerVars, bridgeVars, callVars, stopVars, uiVars, uiRunVars>>

\* A faulty consumer that ends when an event could not be applied.
EndsOnFailure(r, ok) == IF r /\ ok THEN "waiting" ELSE "none"

\* _process_updates after an event: _apply_update has caught what the call
\* raised ("except Exception"), and "while self._running" is tested.
AfterEvent(r, ok) == IF r THEN "waiting" ELSE "none"

\* DeepDomainTUI.update_phase, add_status_message, start_command,
\* add_command_output, finish_command: "if self.status_panel:" (or
\* "if self.output_panel:") the panel method is called, else nothing is
\* done.  compose() makes the two panels together.
AppUpdate(u, panel, m, d) == IF panel THEN ApplyCall(u, m, d) ELSE u

\* The consumer is resumed with the item (wait_for returns the result of a
\* finished get() also when the task was cancelled meanwhile), applies it
\* with _apply_update, which calls the method of the app, calls task_done()
\* and tests "while self._running".
UMApply ==
    /\ update_task = "taken"
    /\ IF Applies(taken[1])
       THEN /\ applied' = Append(applied,
                                 <<UIMethod(taken[1][1]), taken[1][2],
                                   UIArgs(taken[1][1], taken[1][4])>>)
            /\ ui' = AppUpdate(ui, status_panel, UIMethod(taken[1][1]),
                               UIArgs(taken[1][1], taken[1][4]))
       ELSE UNCHANGED <<applied, ui>>
    /\ taken' = << >>
    /\ update_task' = AfterEvent(running, Applies(taken[1]))
    /\ consumers' = IF update_task' = "none" THEN consumers - 1 ELSE consumers
    /\ UNCHANGED <<running, update_queue, awaitVars, enqueued, lifecycle>>
    /\ UNCHANGED <<pending, direct, uiRunVars>>
    /\ UNCHANGED <<fileVars, runnerVars, bridgeVars, callVars, stopVars>>

\* The steps of the consumer task.
ConsumerStep == UMGet \/ UMApply \/ UMCancelled

\* The state cli.run has reached when the UI runs: start() has been
\* called, then update_phase("Initializing", 10) and
\* add_status_message("DeepDomain scan starting...", "info"), which the app
\* without panels dropped, then run_tui(), and compose() has made the
\* panels of the app.
ComposedInit ==
    /\ FileInit /\ exists = {}
    /\ RunnerInit /\ BridgeInit /\ CallInit /\ StopInit /\ UpdateInit
    /\ UIInit /\ UIRunInit
    /\ tui_app = 1
    /\ tui_running = TRUE
    /\ status_panel = TRUE
    /\ phase_queue = << >>
    /\ status_queue = << >>
    /\ tuiRan = TRUE
    /\ posted = <<<<"update_phase", <<"Initializing", 10>>>>,
                  <<"add_status_message",
                    <<"DeepDomain scan starting...", "info">>>>>>

\* The update manager of the running app: start(), stop(), producers
\* calling queue_update, and the consumer task.
UpdateNext ==
    \/ UMStart
    \/ UMStop
    \/ UMStopReturns
    \/ \E t \in UpdateTypes : QueueUpdate(t)
    \/ ConsumerStep

UpdateSpec == ComposedInit /\ [][UpdateNext]_vars

(***************************************************************************)
(* The producers of UI updates: DeepDomainTUI.on_mount, TUIWrapper and     *)
(* ThreadSafeTUIWrapper (the bridge worker threads use).                   *)
(***************************************************************************)
\* A call a producer makes on the UI itself.
Direct(by, m, r) == [by |-> by, method |-> m, running |-> r]

\* on_mount: await self.update_manager.start(), which does not suspend; two
\* status messages and the phase "Ready" are then set on the status panel
\* by on_mount itself.  It runs on the UI loop, once, when compose() has
\* made the panels.
OnMount ==
    /\ loopRunning
    /\ status_panel
    /\ lifecycle = << >>
    /\ StartCall
    /\ ui' = ApplyCall(
               ApplyCall(
                 ApplyCall(ui, "add_status_message",
                           <<"DeepDomain initialized", "info">>),
                 "add_status_message", <<"Output directory", "info">>),
               "update_phase", <<"Ready", 0>>)
    /\ direct' = direct \cup {Direct("on_mount", "add_status_message", running'),
                               Direct("on_mount", "update_phase", running')}
    /\ UNCHANGED <<pending, uiRunVars>>
    /\ UNCHANGED <<fileVars, runnerVars, bridgeVars, callVars, stopVars>>

\* on_unmount: await self.update_manager.stop(), then
\* self.command_runner.stop_all_processes().  With no consumer task stop()
\* does not suspend and the processes are stopped in the same run of the
\* loop; else on_unmount is suspended until the consumer has ended.
OnUnmount ==
    /\ StopCall
    /\ IF update_task = "none"
       THEN /\ StopAllProcesses
            /\ UNCHANGED unmounting
       ELSE /\ unmounting' = TRUE
            /\ UNCHANGED <<runnerVars, stopVars>>
    /\ UNCHANGED <<fileVars, bridgeVars, callVars, uiVars, uiRunVars>>

\* The consumer has ended: stop() returns to on_unmount, which calls
\* stop_all_processes and ends.
OnUnmountResumes ==
    /\ stopping /\ unmounting
    /\ Awaited(update_task)
    /\ stopping' = FALSE
    /\ unmounting' = FALSE
    /\ StopAllProcesses
    /\ UNCHANGED <<running, update_task, update_queue, taken, applied,
                   enqueued, consumers, lifecycle>>
    /\ UNCHANGED <<fileVars, bridgeVars, callVars, uiVars, uiRunVars>>

(***************************************************************************)
(* TUIWrapper from its construction to the running UI: start(), stop(),    *)
(* the updates posted meanwhile, run_tui() and compose().                  *)
(***************************************************************************)
\* "for ... in queue: self.tui_app.<m>(...)": the queued updates are passed
\* to the app one after the other.
RECURSIVE AppUpdates(_, _, _, _)
AppUpdates(u, panel, m, q) ==
    IF q = << >> THEN u
    ELSE AppUpdates(AppUpdate(u, panel, m, Head(q)), panel, m, Tail(q))

\* The arguments of the n-th update posted.
PostedData(m, n) ==
    IF m = "update_phase" THEN <<ToString(n), n>>
    ELSE <<ToString(n), MsgTypeOf(n)>>

\* The state DeepDomainTUI.__init__ makes.
appVars == <<semaphore, waiters, running_processes, process_counter, app_loop,
             umVars, status_panel, ui>>

\* DeepDomainTUI.__init__: the app has a command runner and an update
\* manager of its own, both new, no panels yet and no loop.
NewApp ==
    /\ semaphore' = MaxConcurrent
    /\ waiters' = << >>
    /\ running_processes' = {}
    /\ process_counter' = 0
    /\ app_loop' = FALSE
    /\ running' = FALSE
    /\ update_task' = "none"
    /\ update_queue' = << >>
    /\ taken' = << >>
    /\ applied' = << >>
    /\ stopping' = FALSE
    /\ unmounting' = FALSE
    /\ enqueued' = << >>
    /\ consumers' = 0
    /\ lifecycle' = << >>
    /\ status_panel' = FALSE
    /\ ui' = NoUI

\* TUIWrapper.start(): "if self.tui_running: return"; else a new
\* DeepDomainTUI is made and takes the place of the app the wrapper had.
WrapperStart ==
    /\ IF tui_running
       THEN UNCHANGED <<tui_app, tui_running, tuiRan, appVars>>
       ELSE /\ tui_app < MaxApps
            /\ tui_app' = tui_app + 1
            /\ tui_running' = TRUE
            /\ tuiRan' = FALSE
            /\ NewApp
    /\ UNCHANGED <<phase_queue, status_queue, posted, pending, direct>>
    /\ UNCHANGED <<loopTask, rpc, rres, loopRunning, loop, bpc, proc,
                   returncode, readers, writeVars, pipeOut, pipeErr,
                   output_queue, error_queue, stdout_lines, stderr_lines,
                   timedOut, scheduled, bres>>
    /\ UNCHANGED <<fileVars, callVars, stopVars, uiQueued, uiCalled>>

\* TUIWrapper.stop(): "if self.tui_app and self.tui_running:" the processes
\* of the app's command runner are stopped, the app is told to exit and
\* tui_running is reset; self.tui_app keeps the app.
WrapperStop ==
    /\ IF tui_app # 0 /\ tui_running
       THEN /\ StopAllProcesses
            /\ tui_running' = FALSE
       ELSE /\ UNCHANGED <<runnerVars, stopVars>>
            /\ UNCHANGED tui_running
    /\ UNCHANGED <<tui_app, status_panel, phase_queue, status_queue, tuiRan,
                   posted>>
    /\ UNCHANGED <<fileVars, bridgeVars, callVars, umVars, uiVars, uiQueued, uiCalled>>

\* TUIWrapper.update_phase / add_status_message: "if self.tui_app:" the call
\* goes to the app, from the caller's thread, and reaches the panel when the
\* app has one; else the update is queued for later.
WrapperPost(m) ==
    /\ Len(posted) < MaxEvents
    /\ LET d == PostedData(m, Len(posted) + 1)
       IN /\ posted' = Append(posted, <<m, d>>)
          /\ IF tui_app # 0
             THEN /\ ui' = AppUpdate(ui, status_panel, m, d)
                  /\ direct' = IF status_panel
                                THEN direct \cup {Direct("TUIWrapper", m,
                                                         running)}
                                ELSE direct
                  /\ UNCHANGED <<phase_queue, status_queue>>
             ELSE /\ phase_queue' = IF m = "update_phase"
                                    THEN Append(phase_queue, d)
                                    ELSE phase_queue
                  /\ status_queue' = IF m = "update_phase"
                                     THEN status_queue
                                     ELSE Append(status_queue, d)
                  /\ UNCHANGED <<ui, direct>>
    /\ UNCHANGED <<tui_app, tui_running, status_panel, tuiRan, pending>>
    /\ UNCHANGED <<fileVars, runnerVars, bridgeVars, callVars, stopVars,
                   umVars, uiQueued, uiCalled>>

\* TUIWrapper.run_tui(), up to self.tui_app.run(): start() when there is no
\* app yet, then the queued phase updates and the queued status messages
\* are passed to the app, which has no panels before it runs, and the
\* queues are cleared.
RunTui ==
    /\ ~tuiRan
    /\ tuiRan' = TRUE
    /\ IF tui_app = 0
       THEN tui_app' = 1 /\ tui_running' = TRUE /\ NewApp
       ELSE /\ UNCHANGED <<tui_app, tui_running>>
            /\ ui' = AppUpdates(AppUpdates(ui, status_panel, "update_phase",
                                           phase_queue),
                                status_panel, "add_status_message",
                                status_queue)
            /\ UNCHANGED <<semaphore, waiters, running_processes,
                           process_counter, app_loop, umVars, status_panel>>
    /\ phase_queue' = << >>
    /\ status_queue' = << >>
    /\ UNCHANGED <<posted, pending, direct>>
    /\ UNCHANGED <<loopTask, rpc, rres, loopRunning, loop, bpc, proc,
                   returncode, readers, writeVars, pipeOut, pipeErr,
                   output_queue, error_queue, stdout_lines, stderr_lines,
                   timedOut, scheduled, bres>>
    /\ UNCHANGED <<fileVars, callVars, stopVars, uiQueued, uiCalled>>

\* self.tui_app.run() runs the UI: compose() makes the two panels.
Compose ==
    /\ tuiRan
    /\ ~status_panel
    /\ status_panel' = TRUE
    /\ UNCHANGED <<tui_app, tui_running, phase_queue, status_queue, tuiRan,
                   posted>>
    /\ UNCHANGED <<fileVars, runnerVars, bridgeVars, callVars, stopVars,
                   umVars, uiVars, uiQueued, uiCalled>>

\* The caller of TUIWrapper, as cli.run: updates are posted before and
\* after start(), and run_tui runs the UI; stop() and start() again make a
\* new app.
StartupNext ==
    \/ WrapperStart
    \/ WrapperStop
    \/ \E m \in {"update_phase", "add_status_message"} : WrapperPost(m)
    \/ RunTui
    \/ Compose

StartupSpec == RunnerInit0 /\ [][StartupNext]_vars

\* ThreadSafeTUIWrapper.update_phase / add_status_message: with a running
\* loop the queue_update coroutine is handed to the loop by
\* run_coroutine_threadsafe and the call returns; else the call goes to
\* DeepDomainTUI.update_phase / add_status_message at once, which reach the
\* panel when the app has one and do nothing otherwise.
BridgeUpdate(m) ==
    /\ Len(ui.status_messages) < MaxEvents
    /\ Len(pending) + Len(enqueued) < MaxEvents
    /\ LET d == IF m = "update_phase" THEN <<"Ready to begin", 20>>
                ELSE <<"Workspace initialized", "success">>
       IN IF GetEventLoop /\ loopRunning
          THEN /\ pending' = Append(pending,
                                    <<IF m = "update_phase"
                                      THEN "phase_update"
                                      ELSE "status_message", d>>)
               /\ UNCHANGED <<ui, direct>>
          ELSE /\ ui' = AppUpdate(ui, status_panel, m, d)
               /\ direct' = IF status_panel
                             THEN direct \cup {Direct("bridge", m, running)}
                             ELSE direct
               /\ UNCHANGED pending
    /\ UNCHANGED <<fileVars, runnerVars, bridgeVars, callVars, stopVars,
                   umVars, uiRunVars>>

\* The UI loop runs a coroutine handed to it: update_phase_async or
\* add_status_message_async, which is one queue_update with the arguments
\* the bridge was called with.
LoopRunsPending ==
    /\ loopRunning
    /\ pending # << >>
    /\ Enqueue(Head(pending)[1], "ok", Head(pending)[2])
    /\ pending' = Tail(pending)
    /\ UNCHANGED <<ui, direct, uiRunVars>>
    /\ UNCHANGED <<fileVars, runnerVars, bridgeVars, callVars, stopVars>>

\* DeepDomainTUI.action_clear_status / action_clear_output, bound to the
\* keys r and c: "if self.status_panel: self.status_panel.clear_messages()",
\* "if self.output_panel: self.output_panel.clear_output()", run by the UI
\* loop for a key press.
ActionClear(m) ==
    /\ ui' = AppUpdate(ui, status_panel, m, << >>)
    /\ direct' = IF status_panel
                  THEN direct \cup {Direct("key binding", m, running)}
                  ELSE direct
    /\ UNCHANGED pending
    /\ UNCHANGED <<fileVars, runnerVars, bridgeVars, callVars, stopVars,
                   umVars, uiRunVars>>

\* The app with its producers; the UI loop ends only when the update
\* manager has been stopped.
UINext ==
    \/ LoopStarts
    \/ (~running /\ ~stopping /\ LoopStops)
    \/ OnMount
    \/ OnUnmount
    \/ OnUnmountResumes
    \/ ConsumerStep
    \/ LoopRunsPending
    \/ \E m \in {"update_phase", "add_status_message"} :
          WrapperPost(m) \/ BridgeUpdate(m)

UISpec == ComposedInit /\ [][UINext]_vars

(***************************************************************************)
(* DeepDomainTUI.run_command_async: a command run through the UI on the    *)
(* event loop, around AsyncCommandRunner.run_command_async.                *)
(***************************************************************************)
\* The callback argument: none, one that returns, one that raises.
Callbacks == {"none", "returns", "raises"}

\* await self.finish_command_async(); await self.add_status_message_async(..)
FinishAndStatus(q) == [q EXCEPT !.finish = @ + 1, !.status = @ + 1]

\* "if return_code != 0: ... 'error'  else: ... 'success'"; the message of
\* the except branch is of severity error.
OfSeverity(q, code) == IF code # 0 THEN [q EXCEPT !.errors = @ + 1] ELSE q

\* "if callback: callback(stdout, stderr, return_code)" and, when that
\* raises, "except Exception as e: ... if callback: callback("", str(e), 1)":
\* the invocations of the callback, each with its stderr and return code.
Invocations(callback, res) ==
    CASE callback = "none" -> << >>
      [] callback = "returns" -> << <<res.stderr, res.code>> >>
      [] callback = "raises" ->
            << <<res.stderr, res.code>>, << <<"callback failed">>, 1 >> >>

\* add_status_message_async after the command: "Command failed with return
\* code .." as an error when return_code != 0, else "Command completed
\* successfully" as a success.
CompletionStatus(code) ==
    IF code # 0 THEN <<"Command failed", "error">>
    ELSE <<"Command completed successfully", "success">>

\* The update types and data DeepDomainTUI.run_command_async passes to
\* queue_update, in the order of its calls: start_command_async,
\* finish_command_async and add_status_message_async, and the last two
\* again in the except branch that a raising callback leads to.
CommandEvents(callback, res) ==
    <<<<"command_start", "echo hi">>, <<"command_finish", "None">>,
      <<"status_message", CompletionStatus(res.code)>>>>
       \o (IF callback = "raises"
           THEN <<<<"command_finish", "None">>,
                  <<"status_message", <<"Command error", "error">>>>>>
           ELSE << >>)

\* The events put on the queue for these calls, after base others.
Numbered(puts, base) ==
    [i \in 1..Len(puts) |-> <<puts[i][1], base + i, "ok", puts[i][2]>>]

\* A whole DeepDomainTUI.run_command_async call, as the loop runs it: with
\* a free admission token nothing in it suspends (the semaphore is free,
\* create_subprocess_shell raises at once, put() finds room), so the loop
\* runs no other coroutine from the first queue_update to the last.
UICommand(k, callback) ==
    /\ loopTask = 0
    /\ rpc[k] = "idle"
    /\ ~Locked
    /\ Len(enqueued) + Len(CommandEvents(callback, NoResult)) <= 2 * MaxEvents
    /\ QueueHasRoom(update_queue)
    /\ \E outcome \in CreateSubprocessShell(SubprocessTextArg) :
         /\ update_queue' =
               update_queue \o Numbered(CommandEvents(callback,
                                                      ExceptReturn(outcome)),
                                        Len(enqueued))
         /\ enqueued' =
               enqueued \o Numbered(CommandEvents(callback,
                                                  ExceptReturn(outcome)),
                                    Len(enqueued))
         /\ rres' = [rres EXCEPT ![k] = ExceptReturn(outcome)]
         /\ uiCalled' = [uiCalled EXCEPT ![k] =
                            [callback |-> callback,
                             calls |-> Invocations(callback,
                                                   ExceptReturn(outcome))]]
         /\ uiQueued' = [uiQueued EXCEPT ![k] =
               LET once == OfSeverity(
                              FinishAndStatus([NoneScheduled EXCEPT !.start = 1]),
                              ExceptReturn(outcome).code)
               IN IF callback = "raises"
                  THEN OfSeverity(FinishAndStatus(once), 1) ELSE once]
    /\ semaphore' = TokenReleased(semaphore - 1)
    /\ UNCHANGED <<waiters, running_processes, process_counter, loopTask, rpc>>
    /\ UNCHANGED <<running, update_task, taken, applied, awaitVars, consumers,
                   lifecycle>>
    /\ UNCHANGED wrapVars
    /\ UNCHANGED <<fileVars, bridgeVars, callVars, stopVars, uiVars>>

\* Commands run through the UI by coroutines of the loop, with the update
\* manager started and stopped, its consumer applying the events, and the
\* user clearing the panels.
FlagNext ==
    \/ UMStart
    \/ UMStop
    \/ UMStopReturns
    \/ \E k \in Tasks, cb \in Callbacks : UICommand(k, cb)
    \/ ConsumerStep
    \/ \E m \in {"clear_messages", "clear_output"} : ActionClear(m)

FlagSpec == ComposedInit /\ [][FlagNext]_vars

\* Commands run through the UI by coroutines and, through the bridge, by a
\* worker thread, with the UI loop starting and stopping.
UIRunNext ==
    \/ \E k \in Tasks, cb \in Callbacks : UICommand(k, cb)
    \/ LoopStarts
    \/ LoopStops
    \/ BridgeStep(1)

UIRunSpec == RunnerInit0 /\ [][UIRunNext]_vars

\* A worker thread that uses the bridge; the UI loop, once running, goes on
\* running.
BridgeLiveNext ==
    \/ LoopStarts
    \/ BridgeStep(1)

BridgeLiveSpec == RunnerInit0 /\ [][BridgeLiveNext]_vars

\* Commands run through the UI by coroutines and, through the bridge, by a
\* worker thread; the UI loop, once running, goes on running.
UILiveNext ==
    \/ \E k \in Tasks, cb \in Callbacks : UICommand(k, cb)
    \/ LoopStarts
    \/ BridgeStep(1)

UILiveSpec == RunnerInit0 /\ [][UILiveNext]_vars

\* A worker thread that runs commands which end, hang or write without end.
CapNext ==
    \/ BridgeCallOf(1, EndlessKinds)
    \/ WorkerStep(1)
    \/ ProcWrites(1)
    \/ ProcExits(1)
    \/ TimePasses(1)
    \/ ReadStdout(1)
    \/ ReadStderr(1)

\* The worker thread and the two reader threads run, the clock advances,
\* and a process that can write does write.
CapFairSpec ==
    /\ RunnerInit0 /\ [][CapNext]_vars
    /\ WF_vars(WorkerStep(1))
    /\ WF_vars(TimePasses(1))
    /\ WF_vars(ReadStdout(1))
    /\ WF_vars(ReadStderr(1))
    /\ WF_vars(ProcWrites(1))

\* A worker thread that runs commands which end, some of them leaving a
\* process in the background that has the pipes ("cmd &").
ExitNext ==
    \/ BridgeCallOf(1, BackgroundKinds)
    \/ WorkerStep(1)
    \/ ProcWrites(1)
    \/ ProcExits(1)
    \/ TimePasses(1)
    \/ ReadStdout(1)
    \/ ReadStderr(1)

\* The worker thread and the two reader threads run, the clock advances,
\* and a process that can write does write.
ExitFairSpec ==
    /\ RunnerInit0 /\ [][ExitNext]_vars
    /\ WF_vars(WorkerStep(1))
    /\ WF_vars(TimePasses(1))
    /\ WF_vars(ReadStdout(1))
    /\ WF_vars(ReadStderr(1))
    /\ WF_vars(ProcWrites(1))

\* The producers of the app while its consumer takes no step: a producer
\* that queues a command start, and a worker thread that makes updates
\* through the bridge and runs commands which end, hang or write without
\* end.
ProducerNext ==
    \/ QueueUpdate("command_start")
    \/ \E m \in {"update_phase", "add_status_message"} : BridgeUpdate(m)
    \/ CapNext

\* The worker thread and the two reader threads run, the clock advances,
\* and a process that can write does write.
ProducerFairSpec ==
    /\ ComposedInit /\ [][ProducerNext]_vars
    /\ WF_vars(WorkerStep(1))
    /\ WF_vars(TimePasses(1))
    /\ WF_vars(ReadStdout(1))
    /\ WF_vars(ReadStderr(1))
    /\ WF_vars(ProcWrites(1))

\* A worker thread that uses the bridge while no UI loop can be resolved:
\* on an app that has not been run, and on one whose panels exist.
DegradedNext ==
    \/ BridgeStep(1)
    \/ \E m \in {"update_phase", "add_status_message"} : BridgeUpdate(m)

DegradedSpec == (RunnerInit0 \/ ComposedInit) /\ [][DegradedNext]_vars

\* The event loop runs a task that is ready, and a coroutine that awaits a
\* task that has ended.
UpdateFairSpec ==
    UpdateSpec /\ WF_vars(ConsumerStep) /\ WF_vars(UMStopReturns)

\* The update manager with events that cannot be applied among the others.
UpdateFaultNext ==
    \/ UpdateNext
    \/ \E f \in FaultyEvents : QueueFaulty(f)

UpdateFaultSpec == ComposedInit /\ [][UpdateFaultNext]_vars

(***************************************************************************)
(* Properties of the command runner.                                       *)
(***************************************************************************)
\* The command processes that have been started and have not ended.
LiveProcesses == {w \in Workers : proc[w] = "running"}

\* C8: the command processes that have been spawned and have not yet exited,
\* counted over run_command_async and the bridge's run_command_live, are at
\* most the cap.
LiveProcessesWithinCap ==
    Cardinality(LiveProcesses) + Cardinality(running_processes) <= MaxConcurrent

\* C10: every process the core starts is in the running-process registry
\* before any of its stdout or stderr is read, for run_command_async and
\* for the bridge's run_command_live.
RegisteredBeforeRead ==
    \A w \in Workers :
        (proc[w] # "none" /\ readers[w]) =>
            \E e \in running_processes : e[2] = <<"bridge", w>>

\* The call of coroutine k has returned.
Returned(k) == rpc[k] = "idle" /\ rcmd[k] # "none" /\ rres[k] # NoResult

\* The command of coroutine k ends by itself before any timeout given.
EndsByItself(k) == rtimeout[k] = 0 \/ CommandSeconds(rcmd[k]) <= rtimeout[k]

\* C12: when a timeout is supplied to run_command_async and the process is
\* still running when it expires, run returns an exit code that no process
\* can end with (and the output collected so far, which is part of what the
\* command wrote).
TimeoutReturnsSentinel ==
    \A k \in Tasks :
        (Returned(k) /\ ~EndsByItself(k)) =>
            /\ rres[k].code \notin RealExitCodes
            /\ Len(rres[k].stdout) <= Len(CommandStdout(rcmd[k]))

\* The processes of registry reg that are there to take a signal.
Reachable(reg) == {p \in ProcIds : alive[p] /\ \E e \in reg : e[2] = p}

\* C13: stop_all_processes sends one termination signal to every process of
\* the registry, the others of the registry included when signalling one
\* fails, and no other signal; when it returns the registry is empty and no
\* process has been waited for.
StopSignalsEveryProcessOnce ==
    /\ [][stops' # stops =>
            /\ \A p \in Reachable(running_processes) :
                  signalled'[p] = Append(signalled[p], "SIGTERM")
            /\ \A p \in ProcIds \ Reachable(running_processes) :
                  signalled'[p] = signalled[p]
            /\ running_processes' = {}
            /\ alive' = alive]_vars
    /\ [](\A p \in ProcIds : \A i \in DOMAIN signalled[p] :
             signalled[p][i] = "SIGTERM")

\* stop_all_processes found two processes in the registry, the first of
\* which had ended; the second got its one SIGTERM and is still running
\* after the return, and the registry is empty.
WitnessStopSignalsEveryProcessOnce ==
    \E p, q \in ProcIds :
        /\ p < q
        /\ stops = 1
        /\ {<<p, p>>, <<q, q>>} \subseteq stopped
        /\ signalled[p] = << >>
        /\ signalled[q] = <<"SIGTERM">>
        /\ alive[q]
        /\ running_processes = {}

\* C14: when stop_all_processes is called while a command is running, the
\* run call of that command eventually returns instead of hanging, whatever
\* the command does.
StopLeadsToReturn ==
    \A w \in Workers : (w \in hit /\ proc[w] = "running") ~> bpc[w] = "idle"

\* C15: a failure while spawning the process (the binary is not found, the
\* file may not be executed, the working directory is bad) is not raised to
\* the caller: run returns exit code 1, the error text in the stderr slot
\* and an empty stdout.
SpawnFailureReturnsOne ==
    /\ \A k \in Tasks :
          (Returned(k) /\ rres[k].error # "") =>
              rres[k] = [stdout |-> << >>, stderr |-> <<rres[k].error>>,
                         code |-> 1, error |-> rres[k].error]
    /\ \A w \in Workers :
          (bpc[w] = "idle" /\ bres[w] # NoResult /\ bkind[w] # "runs") =>
              /\ bres[w].code = 1
              /\ bres[w].stdout = << >>

\* C16: for a command whose process starts, writes its output and exits on
\* its own with exit code c, run returns exit code c and a stdout that holds
\* what the process wrote to stdout.
RunReturnsExitCodeAndOutput ==
    \A k \in Tasks :
        (Returned(k) /\ EndsByItself(k)) =>
            /\ rres[k].code = CommandExit(rcmd[k])
            /\ \A i \in DOMAIN CommandStdout(rcmd[k]) :
                  \E j \in DOMAIN rres[k].stdout :
                      rres[k].stdout[j] = CommandStdout(rcmd[k])[i]

\* C17: every line the process writes to stdout is in the returned stdout
\* and has been passed to the callback exactly once, in the order written,
\* when run returns.
EveryLineReturnedAndCalledBack ==
    \A k \in Tasks :
        (Returned(k) /\ EndsByItself(k)) =>
            /\ rres[k].stdout = CommandStdout(rcmd[k])
            /\ calledBack[k] = CommandStdout(rcmd[k])

\* C18: stdout and stderr are drained by two independent readers: a pipe
\* the process has filled does not stay full, whatever the other stream
\* does (as long as the queue of its reader, which the model lets hold
\* MaxLines lines, has room), and once the process Popen started has
\* exited the run call returns.
NeitherStreamBlocks ==
    \A w \in Workers :
        /\ Len(pipeOut[w]) = PipeCapacity ~>
              (Len(pipeOut[w]) < PipeCapacity
                  \/ Len(output_queue[w]) = MaxLines)
        /\ Len(pipeErr[w]) = PipeCapacity ~>
              (Len(pipeErr[w]) < PipeCapacity
                  \/ Len(error_queue[w]) = MaxLines)
        /\ (bpc[w] # "idle" /\ proc[w] = "exited") ~> bpc[w] = "idle"

\* C19: a failure of one command does not alter a sibling: when one run has
\* returned a failure, every other run that has returned has the output and
\* the exit code of its own process, and the admission count is restored
\* when all have returned.
FailureLeavesSiblingsAlone ==
    \A k1, k2 \in Tasks :
        (/\ k1 # k2
         /\ Returned(k1) /\ rres[k1].code # 0
         /\ Returned(k2) /\ EndsByItself(k2)) =>
            /\ rres[k2].stdout = CommandStdout(rcmd[k2])
            /\ rres[k2].code = CommandExit(rcmd[k2])
            /\ semaphore = MaxConcurrent

\* The calls on the UI that the events of sequence q stand for.
RECURSIVE UICalls(_)
UICalls(q) ==
    IF q = << >> THEN << >>
    ELSE <<<<UIMethod(q[1][1]), q[1][2], UIArgs(q[1][1], q[1][4])>>>>
            \o UICalls(Tail(q))

\* C20: every event passed to queue_update is applied to the UI exactly
\* once, in the order enqueued: the calls made on the UI, then the event
\* the consumer holds, then the queue are the events enqueued; the calls
\* are made one at a time, each by the consumer for the event it holds;
\* and while the manager runs, the consumer can go on with a pending event.
EventsAppliedOnceInOrder ==
    /\ [](/\ UICalls(enqueued) = applied \o UICalls(taken \o update_queue)
          /\ (running /\ taken \o update_queue # << >>) =>
                ENABLED ConsumerStep)
    /\ [][applied' # applied =>
            /\ update_task = "taken"
            /\ applied' = applied \o UICalls(taken)]_vars

\* Two events of different types have been applied in the order enqueued,
\* and a third waits in the queue of the running manager.
WitnessEventsAppliedOnceInOrder ==
    /\ running
    /\ Len(applied) = 2 /\ applied[1][1] # applied[2][1]
    /\ applied = UICalls(SubSeq(enqueued, 1, 2))
    /\ Len(update_queue) = 1

\* The step is a call of start() / of stop().
StartCalled == lifecycle' = Append(lifecycle, "start")
StopCalled == lifecycle' = Append(lifecycle, "stop")

\* C22: start() and stop() are idempotent: at most one consumer task exists
\* at any time; start() while running changes nothing (no second consumer);
\* stop() while stopped or never started changes nothing and has returned
\* at once, so stop();stop() leaves the state stop() left.
LifecycleIdempotent ==
    /\ [](consumers <= 1)
    /\ [][(StartCalled /\ running) =>
            UNCHANGED <<running, update_task, update_queue, taken, applied,
                        stopping, consumers>>]_vars
    /\ [][(StopCalled /\ ~running) =>
            /\ ~stopping'
            /\ UNCHANGED <<running, update_task, update_queue, taken, applied,
                           stopping, consumers>>]_vars

\* start() was called twice and then stop() twice; the second stop() has
\* returned, events are still queued and no consumer is left.
WitnessLifecycleIdempotent ==
    /\ lifecycle = <<"start", "start", "stop", "stop">>
    /\ ~stopping /\ ~running
    /\ consumers = 0
    /\ update_queue # << >>

\* stop() has been called and has returned.
StopReturned ==
    /\ lifecycle # << >> /\ lifecycle[Len(lifecycle)] = "stop"
    /\ ~stopping

\* C23: stop() returns whatever is queued; when it has returned the consumer
\* task has ended, it holds no event, and until the next start() no event
\* is applied: what was queued stays queued.
StopReturnsWithLoopEnded ==
    /\ stopping ~> ~stopping
    /\ [](StopReturned => (update_task = "none" /\ taken = << >>
                              /\ consumers = 0))
    /\ [][(StopReturned /\ ~StartCalled) =>
            (applied' = applied /\ ui' = ui
             /\ SubSeq(update_queue', 1, Len(update_queue)) = update_queue)]_vars

\* stop() has returned after the consumer applied an event, with two events
\* left in the queue.
WitnessStopReturnsWithLoopEnded ==
    /\ StopReturned
    /\ lifecycle = <<"start", "stop">>
    /\ Len(applied) = 1
    /\ Len(update_queue) = 2

\* The events of q that lead to a call on the UI.
RECURSIVE Applying(_)
Applying(q) ==
    IF q = << >> THEN << >>
    ELSE (IF Applies(q[1]) THEN <<q[1]>> ELSE << >>) \o Applying(Tail(q))

\* C24: an event that cannot be applied (unknown update type, malformed
\* data, a UI method that raises) does not end the consumer: while the
\* manager runs, the consumer exists and can go on with what is pending,
\* and the events that can be applied are applied, each once, in the order
\* enqueued.
FailedEventDoesNotStopLoop ==
    /\ running => (update_task # "none" /\ consumers = 1)
    /\ (running /\ taken \o update_queue # << >>) => ENABLED ConsumerStep
    /\ UICalls(Applying(enqueued)) =
           applied \o UICalls(Applying(taken \o update_queue))

\* An event that could not be applied was consumed, and an event enqueued
\* after it has been applied by the consumer, which still runs.
WitnessFailedEventDoesNotStopLoop ==
    /\ running /\ update_task = "waiting"
    /\ Len(enqueued) = 3 /\ update_queue = << >>
    /\ Applies(enqueued[1]) /\ ~Applies(enqueued[2]) /\ Applies(enqueued[3])
    /\ applied = UICalls(<<enqueued[1], enqueued[3]>>)

\* C25: the status-message log never holds more than 50 entries.
StatusLogWithinCap == Len(ui.status_messages) <= 50

\* C21: while the update manager runs, the state of the UI is changed only
\* by the consumer applying the event it has taken, never by a producer.
MutatedOnlyByConsumer ==
    [][(ui' # ui /\ running') =>
         (update_task = "taken" /\ direct' = direct)]_vars

\* C28: without a running UI loop every update made through the bridge is
\* applied to the UI before the call returns: nothing is left for a loop,
\* and when run_command_live has returned the result of a command, the UI
\* has been told of the command, of each of its lines and of its end.
DegradedUpdatesApplied ==
    ~loopRunning =>
        /\ pending = << >>
        /\ \A w \in Workers :
             (bpc[w] = "idle" /\ bres[w] # NoResult /\ bres[w].error = "") =>
                /\ ui.current_command # ""
                /\ ~ui.command_running
                /\ Len(ui.output) =
                      Len(bres[w].stdout) + Len(bres[w].stderr)

\* C26: when a call that runs a command through the UI has returned,
\* exactly one command-finished event has been queued or scheduled by it.
ExactlyOneFinishEvent ==
    /\ \A k \in Tasks :
         uiQueued[k].start = 1 => uiQueued[k].finish = 1
    /\ \A w \in Workers :
         (bpc[w] = "idle" /\ bres[w] # NoResult) => scheduled[w].finish = 1

\* C27: when a run_command_live call made with the UI loop running has
\* returned the lines of its command, one command-output event has been
\* scheduled on the loop for each of the lines.
OutputEventForEveryLine ==
    \A w \in Workers :
       (bpc[w] = "idle" /\ bres[w] # NoResult /\ bres[w].error = ""
          /\ scheduled[w].start = 1) =>
       scheduled[w].output = Len(bres[w].stdout) + Len(bres[w].stderr)

\* C31: when a command run through the UI has failed (a non-zero exit code,
\* or no process could be started), a status message of severity error has
\* been queued for it: by DeepDomainTUI.run_command_async, and by
\* run_command_live when the UI loop was running at the call.
FailureQueuesErrorStatus ==
    /\ \A k \in Tasks :
         (uiQueued[k].start = 1 /\ rres[k].code # 0) =>
            uiQueued[k].errors >= 1
    /\ \A w \in Workers :
         (bpc[w] = "idle" /\ bres[w] # NoResult /\ bres[w].code # 0
            /\ scheduled[w].start = 1) =>
            scheduled[w].errors >= 1

\* C32: when a DeepDomainTUI.run_command_async call made with a callback
\* has ended, the callback has been invoked exactly once, also when the
\* callback raises.
CallbackInvokedOnce ==
    \A k \in Tasks :
       (uiQueued[k].start = 1 /\ uiCalled[k].callback # "none") =>
       Len(uiCalled[k].calls) = 1

\* The updates of one kind among those posted.
PostedOf(m) == SelectSeq(posted, LAMBDA e : e[1] = m)

\* C35: no update posted through TUIWrapper is lost: once run_tui runs the
\* UI and its panels exist, the status log holds every status message
\* posted, in the order posted, and the phase shown is the last one posted.
NoPostedUpdateLost ==
    status_panel =>
        /\ ui.status_messages =
              [i \in 1..Len(PostedOf("add_status_message")) |->
                  <<Icon(PostedOf("add_status_message")[i][2][2]),
                    PostedOf("add_status_message")[i][2][1]>>]
        /\ PostedOf("update_phase") # << >> =>
              ui.current_phase =
                 PostedOf("update_phase")[Len(PostedOf("update_phase"))][2]

\* C36: when the process of a run_command_live call has exited on its own,
\* the lines the call is about to return are all the lines the process
\* wrote, each stream in the order written: none is still in a pipe or in
\* a queue when the final drain is done.
EveryLineWrittenIsReturned ==
    \A w \in Workers :
       (bpc[w] = "b_finish" /\ proc[w] = "exited") =>
          /\ \A n \in 1..emitted[w] :
                \/ \E i \in DOMAIN stdout_lines[w] : stdout_lines[w][i] = n
                \/ \E i \in DOMAIN stderr_lines[w] : stderr_lines[w][i] = n
          /\ \A i, j \in DOMAIN stdout_lines[w] :
                i < j => stdout_lines[w][i] < stdout_lines[w][j]
          /\ \A i, j \in DOMAIN stderr_lines[w] :
                i < j => stderr_lines[w][i] < stderr_lines[w][j]

\* C37: the command-running flag of the UI is true exactly while a command
\* started through DeepDomainTUI.run_command_async has not finished.  No
\* state lies inside a call (the loop runs a call from its first
\* queue_update to its last without running the consumer), so the flag is
\* to be false in every state.
FlagTracksRunningCommands ==
    ui.command_running <=> (\E k \in Tasks : rpc[k] # "idle")

\* C29: run_command_live always returns, whatever the process does: a
\* process that does not exit is killed once the 300 s have passed, also
\* one that goes on writing.
RunAlwaysReturns ==
    \A w \in Workers : (bpc[w] # "idle") ~> (bpc[w] = "idle")

\* C30: producers never wait for the UI, also when the consumer never takes
\* an event: whatever the update queue holds, queue_update can complete and
\* an update through the bridge can be made and returns; and a
\* run_command_live call returns once its process has ended or the time is
\* up.
ProducersNeverWait ==
    /\ [](Len(enqueued) < MaxEvents =>
            \A t \in UpdateTypes : ENABLED QueueUpdate(t))
    /\ []((Len(ui.status_messages) < MaxEvents
             /\ Len(pending) + Len(enqueued) < MaxEvents) =>
            \A m \in {"update_phase", "add_status_message"} :
               ENABLED BridgeUpdate(m))
    /\ \A w \in Workers :
          (bpc[w] # "idle" /\ (proc[w] \in {"exited", "killed"} \/ timedOut[w]))
             ~> bpc[w] = "idle"

(***************************************************************************)
(* Properties of the file store.                                           *)
(***************************************************************************)
\* Thread t is between the acquisition and the release of a path lock.
InWriteSection(t) == pc[t] \in {"w_tmp", "w_write", "w_sync", "w_rename"}

InAppendSection(t) ==
    op[t] = "append" /\ (pc[t] = "a_read" \/ (Nested(t) /\ pc[t] # "idle"))

InStreamSection(t) == pc[t] \in {"s_open", "s_chunk"}

InSection(t) ==
    InWriteSection(t) \/ InAppendSection(t) \/ InStreamSection(t)
        \/ pc[t] = "release"

\* No call on p is in progress.
Quiescent(p) == \A t \in Threads : path[t] = p => pc[t] = "idle"

\* C1: once the atomic_append calls on a path have returned, the file holds
\* the payloads of all of them, concatenated in the order in which the calls
\* acquired the path lock, none dropped and none duplicated (I/O errors
\* aside): an append call in progress leads to such a state.
AppendsLandInLockOrder ==
    \A p \in Paths :
        (\E t \in Threads : op[t] = "append" /\ path[t] = p /\ pc[t] # "idle")
            ~> (Quiescent(p) /\ (p \notin disturbed => fileData[p] = expected[p]))

\* The thread that holds what t waits for (0: t waits for nothing).
WaitsFor(t) ==
    CASE pc[t] = "getlock" -> guard
      [] pc[t] = "acquire" -> lockOwner[mylock[t]]
      [] OTHER -> 0

\* t can take a step, or waits for a thread that can proceed.
RECURSIVE CanProceed(_, _)
CanProceed(t, n) ==
    \/ ENABLED ThreadStep(t)
    \/ /\ n > 0
       /\ WaitsFor(t) \notin {0, t}
       /\ CanProceed(WaitsFor(t), n - 1)

\* C2: lock acquisition never deadlocks: a call in progress can always take
\* its next step, or waits for the guard or for a path lock held by another
\* thread which, in turn, can proceed; so every call acquires the lock it
\* needs, completes and releases it.
EveryCallCompletes ==
    \A t \in Threads : pc[t] # "idle" => CanProceed(t, NumThreads)

\* At most one thread is inside the locked section of a path.
MutualExclusion ==
    \A t1, t2 \in Threads :
        (t1 # t2 /\ InSection(t1) /\ InSection(t2)) => path[t1] # path[t2]

\* An append holds its path's lock from reading the existing content on.
AppendHoldsLock ==
    \A t \in Threads :
        InAppendSection(t) =>
            /\ locks[path[t]] # 0
            /\ lockOwner[locks[path[t]]] = t

\* A thread that uses a path has the lock object of the table.
SameLockObject ==
    \A t \in Threads :
        (pc[t] = "acquire" \/ InSection(t)) => mylock[t] = locks[path[t]]

\* A table entry is never replaced or removed.
LockNeverReplaced ==
    \A p \in Paths : locks[p] # 0 => locks'[p] = locks[p]

\* Nothing changes the file while an append is between its read and its
\* rename.
AppendIsOneUnit ==
    \A t \in Threads :
        (InAppendSection(t) /\ InAppendSection(t)' /\ pc[t] # "w_rename")
            => FileAt(path[t])' = FileAt(path[t])

\* C3: at most one writer is inside the locked section of a path; an append
\* holds the path's lock from reading the existing content on, and no other
\* thread changes the file meanwhile; every thread that uses a path has the
\* lock object of the table; a table entry is never replaced or removed.
PathLockSerializes ==
    /\ [](MutualExclusion /\ AppendHoldsLock /\ SameLockObject)
    /\ [][LockNeverReplaced /\ AppendIsOneUnit]_vars

\* An append has read the existing content and holds the lock, while another
\* thread, which looked the same path up, waits for the same lock object.
WitnessPathLockSerializes ==
    \E t1, t2 \in Threads :
        /\ t1 # t2
        /\ path[t1] = path[t2]
        /\ InAppendSection(t1) /\ pc[t1] # "a_read"
        /\ existing[t1] # << >>
        /\ pc[t2] = "acquire" /\ ~Nested(t2)
        /\ mylock[t2] = mylock[t1]
        /\ lockOwner[mylock[t2]] = t1

\* Until the rename the file is as it was when the lock was taken.
UnchangedUntilRename ==
    \A t \in Threads : InWriteSection(t) => FileAt(path[t]) = before[t]

\* After the rename the file holds exactly the new content.
CompleteAfterRename ==
    \A t \in Threads :
        (pc[t] = "release" /\ stage[t] = "write") =>
            FileAt(path[t]) = [present |-> TRUE, data |-> wdata[t]]

\* The file at a path changes only by a rename to the complete content, or
\* by a chunk of a large streaming_write.
ChangedOnlyByRename ==
    \A p \in Paths :
        FileAt(p)' # FileAt(p) =>
            \E t \in Threads :
                /\ path[t] = p
                /\ \/ /\ pc[t] = "w_rename" /\ pc'[t] = "release"
                      /\ FileAt(p)' = [present |-> TRUE, data |-> wdata[t]]
                   \/ InStreamSection(t)

\* C4: atomic_write is all-or-nothing at path: until the rename the file at
\* path is as it was when the lock was taken; after the rename it holds
\* exactly the new content; and the file at a path changes only by a rename
\* to the complete content (or by a chunk of a large streaming_write).
WriteIsAllOrNothing ==
    /\ [](UnchangedUntilRename /\ CompleteAfterRename)
    /\ [][ChangedOnlyByRename]_vars

\* One write has replaced an existing file by a different content, while
\* another has its temporary file complete and its target still untouched.
WitnessWriteIsAllOrNothing ==
    \E t1, t2 \in Threads :
        /\ t1 # t2
        /\ pc[t1] = "release" /\ stage[t1] = "write"
        /\ before[t1].present /\ before[t1].data # wdata[t1]
        /\ fileData[path[t1]] = wdata[t1]
        /\ pc[t2] = "w_rename" /\ tmp[t2] = wdata[t2]
        /\ wdata[t2] # << >> /\ FileAt(path[t2]) = before[t2]
        /\ before[t2].data # wdata[t2]

\* C5: when creating, writing, flushing or syncing the temporary file fails,
\* the error reaches the caller and the file at path is as it was before the
\* call took the lock: nothing written before the failure shows at path.
FailureLeavesFileIntact ==
    [][\A t \in Threads :
         (pc[t] \in {"w_tmp", "w_write", "w_sync"} /\ pc'[t] = "idle") =>
             /\ result'[t] = "IOFailure"
             /\ FileAt(path[t])' = before[t]]_vars

\* A write failed after part of the content had reached the temporary file;
\* the caller has the error and the existing file is as it was.
WitnessFailureLeavesFileIntact ==
    \E t \in Threads :
        /\ pc[t] = "idle" /\ result[t] = "IOFailure"
        /\ tmp[t] # << >> /\ tmp[t] # wdata[t]
        /\ before[t].present
        /\ FileAt(path[t]) = before[t]

\* The content an append is said to leave: a newline is added to every
\* content that does not end with one, the empty content included.
ClaimedAppendResult(old, c) ==
    IF EndsWithNewline(c) THEN old \o c ELSE old \o c \o <<NL>>

\* C6: after atomic_append(path, content) on a file whose content was P the
\* file equals P + content when content ends with a newline and P + content +
\* newline when it does not, the empty content included.
AppendYieldsNormalizedLine ==
    \A t \in Threads :
        (op[t] = "append" /\ pc[t] = "a_read")
            ~> (/\ pc[t] = "idle"
                /\ (path[t] \notin disturbed =>
                      fileData[path[t]] =
                          ClaimedAppendResult(before[t].data, content[t])))

\* The sequence p is a prefix of the sequence s.
StartsWith(s, p) == Len(p) <= Len(s) /\ SubSeq(s, 1, Len(p)) = p

\* C39: atomic_append never shrinks a file: from the moment the call holds
\* the path lock the file begins with the content it held at that moment,
\* also when the existing file could not be read or decoded.
AppendNeverShrinks ==
    \A t \in Threads :
        (InAppendSection(t) \/ (op[t] = "append" /\ pc[t] = "release")) =>
            StartsWith(FileAt(path[t]).data, before[t].data)

\* An atomic_append call could not read the file, which holds content, and
\* has called atomic_write with a content that does not begin with it; it
\* holds the path lock, and the file is as it was.
WitnessAppendNeverShrinks ==
    \E t \in Threads :
        /\ Nested(t) /\ pc[t] = "acquire"
        /\ lockOwner[mylock[t]] = t
        /\ path[t] \in disturbed
        /\ before[t].present /\ before[t].data # << >>
        /\ ~StartsWith(wdata[t], before[t].data)
        /\ FileAt(path[t]) = before[t]

\* C33: streaming_write(path, content) leaves the file that
\* atomic_write(path, content) leaves: when its last write is done and the
\* path lock is still held, the file holds exactly content, whatever its
\* size and whatever the file held before.
StreamLeavesContent ==
    \A t \in Threads :
        (op[t] = "stream" /\ pc[t] = "release") =>
            fileData[path[t]] = content[t]

\* C34: operations on the same file use the same lock whatever spelling of
\* the path each caller passes: two calls that have got their lock and whose
\* paths name one file have got the same lock object.
SpellingsShareLock ==
    \A t, u \in Threads :
        (/\ spc[t] \in {"acquire", "section"}
         /\ spc[u] \in {"acquire", "section"}
         /\ FileOf(spelling[t]) = FileOf(spelling[u])) =>
        locksByKey[PathOf(spelling[t])] = locksByKey[PathOf(spelling[u])]

\* The lock-table guard is held only inside _get_lock.
GuardOnlyInLookup == guard # 0 => pc[guard] = "lookup"

\* A thread that waits for a path lock waits for a thread on the same path.
BlockedOnlyBySamePath ==
    \A u \in Threads :
        (pc[u] = "acquire" /\ lockOwner[mylock[u]] # 0) =>
            path[lockOwner[mylock[u]]] = path[u]

\* C7: writes to different paths proceed concurrently: the lock-table guard
\* is held only inside _get_lock, and a thread that waits for a path lock
\* waits for a thread that works on the same path.
DifferentPathsDoNotBlock == GuardOnlyInLookup /\ BlockedOnlyBySamePath

\* Two threads are doing file I/O under the locks of two different paths,
\* which have two different lock objects.
WitnessDifferentPathsDoNotBlock ==
    \E t1, t2 \in Threads :
        /\ path[t1] # path[t2]
        /\ pc[t1] \in {"w_write", "w_sync", "w_rename", "s_chunk"}
        /\ pc[t2] \in {"w_write", "w_sync", "w_rename", "s_chunk"}
        /\ mylock[t1] # mylock[t2]
        /\ lockOwner[mylock[t1]] = t1 /\ lockOwner[mylock[t2]] = t2

====
